---- MODULE Spec2Model ----
(***************************************************************************)
(* State-machine model of the RAG proxy of LLM/Docker/app.py:              *)
(* the fingerprint-gated index build (build_vectorstore), the prompt       *)
(* augmentation (build_augmented_prompt and its helpers) and the relay     *)
(* endpoints /api/generate and /api/chat.                                  *)
(*                                                                         *)
(* Scheduling.  Every handler is an `async def` run on the single asyncio  *)
(* event loop of the process.  build_vectorstore, similarity_search and    *)
(* the DDGS search are plain synchronous calls, so a handler keeps the     *)
(* loop from its first statement to `await client.post(...)`.  The model   *)
(* records the coroutine that holds the loop in `loop`; a handler runs in  *)
(* steps (the freshness check, the build pass, the rest of the             *)
(* augmentation, the relay of the backend's answer) and only the holder    *)
(* of the loop takes the steps before the post.  The file system and the   *)
(* backend are the environment: they act at any time.                      *)
(*                                                                         *)
(* Texts are sequences of one-character strings and template tokens.       *)
(***************************************************************************)
EXTENDS Integers, Sequences, FiniteSets, TLC

(* ------------------------------ bounds -------------------------------- *)
\* number of request slots (requests the process receives between restarts)
MaxReq == 2
\* number of index build passes over the life of the persist directory
MaxBuilds == 2
\* number of modifications of source files
MaxEdits == 1
\* number of process restarts
MaxRestarts == 1
\* number of frames a streaming backend writes
MaxFrames == 2
\* number of documents a retrieval returns to format_context
MaxDocs == 4
\* how far below and above TRUNCATE_CHARS the lengths of the prompts go
MaxSlack == 4
\* number of bytes of a file of the trees that are fingerprinted
MaxBytes == 2
\* number of characters of a file of the trees that are split
MaxText == 4
\* the chunk sizes the splitter is tried with go from CHUNCK_SIZE to MaxSize
MaxSize == 3
\* lines a backend response is made of, for the event-frame generator
MaxLines == 3
\* requests the older variant handles in a run
MaxAsks == 2

(* --------------------------- configuration ---------------------------- *)
\* CHUNCK_SIZE / CHUNCK_OVERLAP are read from the environment; the model
\* runs the process with a small window so that documents of a few
\* characters are split.
CHUNCK_SIZE == 2
CHUNCK_OVERLAP == 1
\* augmented_prompt[-8000:] keeps the last 8000 characters
TRUNCATE_CHARS == 8000
\* k of similarity_search chosen by build_augmented_prompt
K_CHAT == 2
K_GENERATE == 8

Files == <<"a.go", "b.go">>
FileSet == {Files[i] : i \in 1..Len(Files)}
\* file contents: a whitespace-only file and three one-byte files
Contents == {<<" ">>, <<"X">>, <<"Y">>, <<"Z">>}

Startup == 0
Requests == 1..MaxReq
Callers == {Startup} \cup Requests
Idle == -1
None == <<>>

Modes == {"chat", "generate"}
Question == <<"q">>
\* conversations a /api/chat client sends: the last message is the user's
\* question, or the conversation ends with an assistant message
Conversations ==
  { <<[role |-> "user", content |-> Question]>>,
    <<[role |-> "user", content |-> Question],
      [role |-> "assistant", content |-> <<"a">>]>> }

VARIABLES
  files,                \* /code/**/*.go : file name -> bytes
  store,                \* PERSIST_DIR : collection name -> set of stored units
  vectorstore,          \* global vectorstore (None or the dict of two handles)
  code_hash,            \* global code_hash
  DDGS_SEARCH_ENABLED,  \* global web-search flag
  phase,                \* "init" | "starting" | "serving" | "failed"
  loop,                 \* the coroutine holding the event loop, or Idle
  pc,                   \* caller -> position in its handler
  req,                  \* request -> the parsed request body (None if unused)
  local,                \* caller -> local variables of the running handler
  sent,                 \* request -> payload posted to the backend (None if none)
  backend,              \* request -> the backend's answer to the post
  resp,                 \* request -> response given to the client
  nbuild,               \* number of build passes started (names the handles)
  nedit,                \* number of file modifications so far
  nrestart,             \* number of restarts so far
  hist,                 \* history variables (not program state), see HistInit
  wire,                 \* request -> frames the backend has written to its response
  out,                  \* request -> chunks the client has received of a streamed response
  arg,                  \* input of the function under test (None in the server's runs)
  ret,                  \* its result (None until it has been applied)
  old                   \* the process that runs the older variant (app_old.py), see OldInit

vars == <<files, store, vectorstore, code_hash, DDGS_SEARCH_ENABLED, phase, loop,
          pc, req, local, sent, backend, resp, nbuild, nedit, nrestart, hist,
          wire, out, arg, ret, old>>

\* the variables of the server
serverVars == <<files, store, vectorstore, code_hash, DDGS_SEARCH_ENABLED, phase, loop,
                pc, req, local, sent, backend, resp, nbuild, nedit, nrestart, hist,
                wire, out, old>>

(* ------------------------- pure functions ----------------------------- *)
RECURSIVE Concat(_)
\* concatenation of a sequence of texts
Concat(ss) == IF ss = <<>> THEN <<>> ELSE Head(ss) \o Concat(Tail(ss))

\* hashlib.md5(...).hexdigest(), taken as collision-free: the digest names
\* the byte sequence that was fed to it.  "" (the initial code_hash) is no digest.
Md5(bytes) == <<"md5", bytes>>
EmptyStr == <<>>

hash_listing_named(fs, listing) ==
  Md5(Concat([i \in 1..Len(listing) |-> <<listing[i]>> \o fs[listing[i]]]))

\* hash_code_dir on a tree whose files glob.glob yields in the order
\* `listing`: each file is read and its bytes are folded, one file after the
\* other, into one md5.  glob does not sort: the order is the directory's.
hash_listing(fs, listing) == Md5(Concat([i \in 1..Len(listing) |-> fs[listing[i]]]))

RECURSIVE FoldFiles_all(_, _, _)
FoldFiles_all(fs, listing, unreadable) ==
  IF listing = <<>> THEN <<>>
  ELSE fs[Head(listing)] \o FoldFiles_all(fs, Tail(listing), unreadable)

RECURSIVE FoldFiles(_, _, _)
\* the loop of hash_code_dir (lines 76-81): what has been fed to the md5
\* after the files of `listing`; a file whose open() or read() raises is
\* passed over (`except Exception: continue`)
FoldFiles(fs, listing, unreadable) ==
  IF listing = <<>> THEN <<>>
  ELSE (IF Head(listing) \in unreadable THEN <<>> ELSE fs[Head(listing)])
         \o FoldFiles(fs, Tail(listing), unreadable)

hash_readable_firstfile(fs, listing, unreadable) ==
  Md5(IF listing = <<>> THEN <<>> ELSE fs[listing[1]])

\* hash_code_dir on a tree some of whose files cannot be read
hash_readable(fs, listing, unreadable) == Md5(FoldFiles(fs, listing, unreadable))

\* hash_code_dir in the server's runs: the directory lists its files in the
\* order of Files, and rewriting a file in place does not change that order
hash_code_dir(fs) == hash_listing(fs, Files)

NonAscii == {"é"}
Whitespace == {" "}

RECURSIVE CollapseSpaces(_)
\* clean_extra_whitespace, first part: a run of blanks becomes one blank
CollapseSpaces(t) ==
  IF Len(t) < 2 THEN t
  ELSE IF Head(t) \in Whitespace /\ t[2] \in Whitespace
       THEN CollapseSpaces(Tail(t))
       ELSE <<Head(t)>> \o CollapseSpaces(Tail(t))

RECURSIVE LStrip(_)
LStrip(t) == IF t # <<>> /\ Head(t) \in Whitespace THEN LStrip(Tail(t)) ELSE t

RECURSIVE RStrip(_)
RStrip(t) ==
  IF t # <<>> /\ t[Len(t)] \in Whitespace THEN RStrip(SubSeq(t, 1, Len(t) - 1)) ELSE t

\* str.strip()
Strip(t) == RStrip(LStrip(t))

\* clean_code_content: unicode quotes replaced, non-ascii characters removed,
\* redundant whitespace collapsed and the ends stripped
clean_code_content(t) ==
  Strip(CollapseSpaces(SelectSeq(t, LAMBDA ch : ch \notin NonAscii)))

\* A piece of a document: its text and the position of its first character
\* in the document.
Span(start, text) == [start |-> start, text |-> text]

\* the characters of a piece, each a piece: what the separator "" splits into
CharsOf(sp) == [i \in 1..Len(sp.text) |-> Span(sp.start + i - 1, <<sp.text[i]>>)]

RECURSIVE PiecesFrom(_, _)
\* what the separator " " splits a piece into, from its character i on, with
\* keep_separator=True: every piece but the first begins with its separator,
\* and no piece is empty
PiecesFrom(sp, i) ==
  IF i > Len(sp.text) THEN <<>>
  ELSE LET later == {j \in (i + 1)..Len(sp.text) : sp.text[j] = " "}
           nxt == IF later = {} THEN Len(sp.text) + 1
                  ELSE CHOOSE j \in later : \A k \in later : j <= k
       IN  <<Span(sp.start + i - 1, SubSeq(sp.text, i, nxt - 1))>> \o PiecesFrom(sp, nxt)

RECURSIVE Total(_)
\* the number of characters of the pieces gathered for the current chunk
Total(cur) == IF cur = <<>> THEN 0 ELSE Len(Head(cur).text) + Total(Tail(cur))

\* TextSplitter._join_docs: the gathered pieces are joined and the result is
\* stripped; an empty result gives no chunk
JoinDocs(cur) ==
  LET text == Concat([i \in 1..Len(cur) |-> cur[i].text])
  IN  IF Strip(text) = <<>> THEN <<>>
      ELSE <<Span(cur[1].start + (Len(text) - Len(LStrip(text))), Strip(text))>>

RECURSIVE Shrink(_, _, _, _)
\* the while loop of TextSplitter._merge_splits: once a chunk is emitted,
\* pieces are dropped from its front until what is left is no longer than the
\* overlap and the next piece, of length len, fits
Shrink(cur, len, size, overlap) ==
  IF Total(cur) > overlap \/ (Total(cur) + len > size /\ Total(cur) > 0)
  THEN Shrink(Tail(cur), len, size, overlap)
  ELSE cur

RECURSIVE MergeFrom(_, _, _, _, _)
\* the for loop of TextSplitter._merge_splits from piece i on
MergeFrom(splits, i, cur, size, overlap) ==
  IF i > Len(splits) THEN JoinDocs(cur)
  ELSE LET d == splits[i]
       IN  IF Total(cur) + Len(d.text) > size /\ cur # <<>>
           THEN JoinDocs(cur)
                  \o MergeFrom(splits, i + 1,
                               Append(Shrink(cur, Len(d.text), size, overlap), d),
                               size, overlap)
           ELSE MergeFrom(splits, i + 1, Append(cur, d), size, overlap)

\* TextSplitter._merge_splits: pieces are gathered into chunks of at most
\* `size` characters, consecutive chunks sharing whole pieces of at most
\* `overlap` characters
merge_splits(splits, size, overlap) == MergeFrom(splits, 1, <<>>, size, overlap)

\* _split_text of a piece with the last separator, "": its characters, merged
\* (a piece as long as a chunk may be is taken as it is)
CharLevel(sp, size, overlap) ==
  IF 1 < size THEN merge_splits(CharsOf(sp), size, overlap) ELSE CharsOf(sp)

RECURSIVE SplitPieces(_, _, _, _, _)
\* the loop of RecursiveCharacterTextSplitter._split_text over the pieces the
\* separator " " gave: pieces shorter than a chunk are gathered and merged, a
\* longer one is split with the next separator
SplitPieces(pieces, i, good, size, overlap) ==
  IF i > Len(pieces) THEN merge_splits(good, size, overlap)
  ELSE IF Len(pieces[i].text) < size
  THEN SplitPieces(pieces, i + 1, Append(good, pieces[i]), size, overlap)
  ELSE merge_splits(good, size, overlap)
         \o CharLevel(pieces[i], size, overlap)
         \o SplitPieces(pieces, i + 1, <<>>, size, overlap)

\* RecursiveCharacterTextSplitter.from_language(...).split_text on a cleaned
\* document, each chunk with its position.  clean_code_content has turned
\* every newline into a space, so of the separators of the language only the
\* last two, " " and "", can occur.
split_spans(t, size, overlap) ==
  IF \E i \in 1..Len(t) : t[i] = " "
  THEN SplitPieces(PiecesFrom(Span(1, t), 1), 1, <<>>, size, overlap)
  ELSE CharLevel(Span(1, t), size, overlap)

\* the orders in which the files of the tree can come: glob and the
\* directory loader take the directory's order, and the loader, which reads
\* the files in a thread pool (use_multithreading=True), yields each
\* document when its thread is done
Listings ==
  {l \in [1..Len(Files) -> FileSet] : \A i, j \in 1..Len(Files) : i # j => l[i] # l[j]}

\* the documents DirectoryLoader/TextLoader load, cleaned (lines 156-170),
\* when the loader yields them in the order `order`
LoadDocs(fs, order) ==
  [i \in 1..Len(order) |->
     [source |-> order[i], page_content |-> clean_code_content(fs[order[i]])]]

RECURSIVE split_documents(_, _, _)
\* code_splitter.split_documents(all_docs): the chunks of every document,
\* each keeping the metadata of its document (and here its position)
split_documents(docs, size, overlap) ==
  IF docs = <<>> THEN <<>>
  ELSE LET d == Head(docs)
           c == split_spans(d.page_content, size, overlap)
       IN  [i \in 1..Len(c) |->
              [source |-> d.source, start |-> c[i].start, page_content |-> c[i].text]]
             \o split_documents(Tail(docs), size, overlap)

\* line 184 with the splitter of lines 148-153
SplitDocs(docs) ==
  LET c == split_documents(docs, CHUNCK_SIZE, CHUNCK_OVERLAP)
  IN  [i \in 1..Len(c) |-> [source |-> c[i].source, page_content |-> c[i].page_content]]

\* line 187: splits = [doc for doc in splits if doc.page_content.strip()]
NonEmptySplits(splits) == SelectSeq(splits, LAMBDA d : Strip(d.page_content) # <<>>)

\* NomicEmbeddingsWrapper._prefix_text (lines 96-99): the text the embedding
\* model is given
prefix_text(text, is_document) ==
  <<IF is_document THEN "search_document: " ELSE "search_query: ">> \o text

embed_query_asdocument(text) == prefix_text(text, TRUE)

\* NomicEmbeddingsWrapper.embed_documents (lines 101-103) and embed_query
\* (lines 107-109): what is sent to the embedding model for each text
embed_documents(texts) == [i \in 1..Len(texts) |-> prefix_text(texts[i], TRUE)]

embed_query(text) == prefix_text(text, FALSE)

\* what Chroma.from_documents adds to the named collection for build b: one
\* unit per document, under a fresh id (a uuid4), so nothing already stored
\* is overwritten; `embedded` is the text its vector was computed from
UnitsOf(docs, b) ==
  LET embedded == embed_documents([i \in 1..Len(docs) |-> docs[i].page_content])
  IN  {[build |-> b, idx |-> i, source |-> docs[i].source, text |-> docs[i].page_content,
        embedded |-> embedded[i]]
         : i \in 1..Len(docs)}

(* ------------------------- retrieval, prompt -------------------------- *)
\* The embedding model is a function of the text: for one query it orders the
\* texts the same way every time.  The model fixes one such order (the texts
\* nearest to the question first); units of equal text are equally near and
\* come in the order they were stored.
TextRank(t) ==
  IF t = <<>> THEN 9
  ELSE IF t[1] = "Z" THEN 1 ELSE IF t[1] = "X" THEN 2 ELSE IF t[1] = "Y" THEN 3 ELSE 4

Nearer(u, v) ==
  \/ TextRank(u.text) < TextRank(v.text)
  \/ /\ TextRank(u.text) = TextRank(v.text)
     /\ \/ u.build < v.build
        \/ u.build = v.build /\ u.idx < v.idx

RECURSIVE Ranked(_)
\* the units of a collection, nearest first
Ranked(units) ==
  IF units = {} THEN <<>>
  ELSE LET u == CHOOSE x \in units : \A y \in units \ {x} : Nearer(x, y)
       IN  <<u>> \o Ranked(units \ {u})

Min(a, b) == IF a <= b THEN a ELSE b

\* collection.similarity_search(prompt, k): the k nearest stored units, best
\* first, as documents
similarity_search(units, k) ==
  LET a == SubSeq(Ranked(units), 1, Min(k, Cardinality(units)))
  IN  [i \in 1..Len(a) |-> [source |-> a[i].source, page_content |-> a[i].text]]

\* textwrap.indent(text, '    ') on a one-line text: blank text gets no prefix
Indent(t) == IF Strip(t) = <<>> THEN t ELSE <<"    ">> \o t

\* os.path.basename(source) (line 226): what follows the last "/" of the
\* path; a name without directory is its own base name
basename(source) ==
  CASE source = "/code/a.go"     -> "a.go"
    [] source = "/code/lib/a.go" -> "a.go"
    [] source = "/code/lib/b.go" -> "b.go"
    [] OTHER                     -> source

\* the header of an extract (line 230)
Header(filename, n) == "### Fichier: " \o filename \o " (Extrait " \o ToString(n) \o ") ###"

RECURSIVE FormatFrom_renumber(_, _, _)
FormatFrom_renumber(docs, i, seen) ==
  IF i > Len(docs) THEN <<>>
  ELSE IF docs[i].page_content \in seen THEN FormatFrom_renumber(docs, i + 1, seen)
  ELSE << <<Header(basename(docs[i].source), Cardinality(seen) + 1)>>,
          Indent(docs[i].page_content) >>
         \o FormatFrom_renumber(docs, i + 1, seen \cup {docs[i].page_content})

RECURSIVE FormatFrom_nodedupe(_, _, _)
FormatFrom_nodedupe(docs, i, seen) ==
  IF i > Len(docs) THEN <<>>
  ELSE << <<Header(basename(docs[i].source), i)>>,
          Indent(docs[i].page_content) >>
         \o FormatFrom_nodedupe(docs, i + 1, seen)

RECURSIVE FormatFrom(_, _, _)
\* the loop of format_context from document i on; seen = keys of `extraits`
FormatFrom(docs, i, seen) ==
  IF i > Len(docs) THEN <<>>
  ELSE IF docs[i].page_content \in seen THEN FormatFrom(docs, i + 1, seen)
  ELSE << <<Header(basename(docs[i].source), i)>>,
          Indent(docs[i].page_content) >>
         \o FormatFrom(docs, i + 1, seen \cup {docs[i].page_content})

RECURSIVE Join(_, _)
\* sep.join(parts)
Join(parts, sep) ==
  IF parts = <<>> THEN <<>>
  ELSE IF Len(parts) = 1 THEN parts[1]
  ELSE parts[1] \o sep \o Join(Tail(parts), sep)

\* format_context(docs)
format_context(docs) == Join(FormatFrom(docs, 1, {}), <<"\n\n">>)

\* perform_rag_search's result for the retrieved documents (line 301)
RagContext(docs) ==
  IF docs # <<>> THEN format_context(docs) ELSE <<"Aucun contexte trouvé.">>

\* build_enhanced_prompt: the mode's template around the two blocks and the question
build_enhanced_prompt(mode, question, rag_context, web_context) ==
  IF mode = "chat"
  THEN <<"\n# Consigne (chat) ... ## Contexte Code:\n\n">> \o rag_context
         \o <<"\n\n## Informations Web:\n\n">> \o web_context
         \o <<"\n\n## Instructions ... # Question\n\n">> \o question \o <<"\n">>
  ELSE <<"\n# Consigne (generate) ... ## Contexte Code:\n\n">> \o rag_context
         \o <<"\n\n## Instructions ... # Question\n\n">> \o question \o <<"\n">>

TruncateHead(t) ==
  IF Len(t) > TRUNCATE_CHARS THEN SubSeq(t, 1, TRUNCATE_CHARS) ELSE t

\* augmented_prompt[-8000:]
TruncateTail(t) ==
  IF Len(t) > TRUNCATE_CHARS THEN SubSeq(t, Len(t) - TRUNCATE_CHARS + 1, Len(t)) ELSE t

\* the text of the augmented prompt that goes into the payload: chat_endpoint
\* line 498 cuts it, generate_endpoint line 446 takes it whole
SentPrompt(mode, augmented_prompt) ==
  IF mode = "chat" THEN TruncateTail(augmented_prompt) ELSE augmented_prompt

(* --------------------------- exceptions ------------------------------- *)
\* an exception: its class, the status it carries, str(e), and for an
\* HTTPStatusError the text of the response it holds
Exc(type, status, text, body) ==
  [type |-> type, status |-> status, text |-> text, body |-> body]

HTTPException(status, detail) == Exc("HTTPException", status, detail, <<>>)

\* str(e)
StrOf(e) ==
  IF e.type = "HTTPException" THEN <<ToString(e.status), ": ">> \o e.text ELSE e.text

\* generate_endpoint's except clauses (lines 483-486)
generate_except(e) ==
  IF e.type = "RequestError"
  THEN HTTPException(500, <<"Erreur de connexion à Ollama: ">> \o StrOf(e))
  ELSE HTTPException(500, <<"Erreur interne: ">> \o StrOf(e))

\* chat_endpoint's inner except clauses (lines 557-563); anything else passes
chat_inner_except(e) ==
  IF e.type = "HTTPStatusError" THEN HTTPException(502, <<"Erreur Ollama: ">> \o e.body)
  ELSE IF e.type = "RequestError"
       THEN HTTPException(503, <<"Ollama non disponible: ">> \o StrOf(e))
       ELSE e

\* chat_endpoint's outer except clause (lines 565-567): it encloses the inner
\* try, so it also receives what the inner clauses raise
chat_outer_except(e) == HTTPException(500, <<"Erreur interne: ">> \o StrOf(e))

\* the response FastAPI makes of an HTTPException
ErrorResponse(e) == [status |-> e.status, kind |-> "error", body |-> e.text]

(* ------------------------------ state --------------------------------- *)
NoReq ==
  [endpoint |-> "none", prompt |-> <<>>, messages |-> <<>>, stream |-> FALSE,
   model |-> "", options |-> <<>>]
NoLocal == [build |-> 0]

Handle(name, b) == [name |-> name, build |-> b]

HistInit ==
  [ pre       |-> None,     \* the shared index state when the running pass began
    lastBuild |-> "none",   \* how the latest pass ended: "running", "ok", "raised"
    enrichErr |-> [r \in Requests |-> "none"],  \* what raised in r's augmentation
    web       |-> [r \in Requests |-> "none"],  \* r's web search: "skipped", "ok", "raised"
    clean     |-> FALSE,    \* no file changed since the latest fingerprint was taken
    okClean   |-> FALSE,    \* a freshness check returned, no file changed since it hashed
    passes    |-> 0,        \* passes started, with an index installed, since the last edit
    calls     |-> [r \in Requests |-> <<>>],   \* what r has called so far, in order
    gone      |-> [r \in Requests |-> FALSE] ] \* r's client has dropped its connection

\* a call a request makes: the function, and for similarity_search the
\* collection it is made on, its k, the text given to the embedding model and
\* the number of extracts format_context renders of its result
Call(op, collection, k, text, rendered) ==
  [op |-> op, collection |-> collection, k |-> k, text |-> text, rendered |-> rendered]

CallOf(op) == Call(op, "", 0, <<>>, 0)

Called_prepend(h, c, cs) == IF c = Startup THEN h ELSE [h EXCEPT !.calls[c] = cs \o @]

\* history h after caller c has made the calls `cs`; the startup hook's
\* calls are not kept
Called(h, c, cs) == IF c = Startup THEN h ELSE [h EXCEPT !.calls[c] = @ \o cs]

\* questions put to GET /api/generate of the older variant
Questions == {<<"how">>, <<"why">>}

\* get_cache_key (app_old.py lines 37-38): the md5 of the question's bytes
get_cache_key(question) == Md5(question)

\* The older variant when its process has been started: CACHE_DIR holds no
\* answer (one file per key, None where there is none), the module globals
\* are as lines 79-80 set them.  `asked` counts the requests handled, `last`
\* is the latest of them (none yet) with the calls it made and its response,
\* `wrote` tells for each cache entry the request and the tree it was
\* written for (history, not program state).
OldInit ==
  [ cache       |-> [key \in {get_cache_key(q) : q \in Questions} |-> <<>>],
    vectorstore |-> <<>>,
    code_hash   |-> EmptyStr,
    asked       |-> 0,
    last        |-> <<>>,
    wrote       |-> [key \in {get_cache_key(q) : q \in Questions} |-> <<>>] ]

\* the server's state when the process has been started over the source
\* tree `tree`
ServerInit(tree) ==
  /\ files = tree
  /\ old = OldInit
  /\ store = [n \in {"chat_context", "code_completion"} |-> {}]
  /\ vectorstore = None
  /\ code_hash = EmptyStr
  /\ DDGS_SEARCH_ENABLED = TRUE
  /\ phase = "init"
  /\ loop = Idle
  /\ pc = [c \in Callers |-> "idle"]
  /\ req = [r \in Requests |-> NoReq]
  /\ local = [c \in Callers |-> NoLocal]
  /\ sent = [r \in Requests |-> None]
  /\ backend = [r \in Requests |-> None]
  /\ resp = [r \in Requests |-> None]
  /\ nbuild = 0
  /\ nedit = 0
  /\ nrestart = 0
  /\ hist = HistInit
  /\ wire = [r \in Requests |-> <<>>]
  /\ out = [r \in Requests |-> <<>>]

\* the source tree of the runs: two files of one byte
ProgramInit == ServerInit([f \in FileSet |-> IF f = "a.go" THEN <<"X">> ELSE <<"Y">>])

Init == ProgramInit /\ arg = None /\ ret = None

(* --------------------------- environment ------------------------------ *)
\* a source file is rewritten (an editor, a checkout); no program code
ModifyFile(f, c) ==
  /\ nedit < MaxEdits
  /\ c # files[f]
  /\ files' = [files EXCEPT ![f] = c]
  /\ nedit' = nedit + 1
  /\ hist' = [hist EXCEPT !.clean = FALSE, !.okClean = FALSE, !.passes = 0]
  /\ UNCHANGED <<store, vectorstore, code_hash, DDGS_SEARCH_ENABLED, phase, loop, pc,
                 req, local, sent, backend, resp, nbuild, nrestart>>
  /\ UNCHANGED <<wire, out, arg, ret, old>>

\* the process is stopped and started again: module globals are initialised
\* (lines 53, 129, 130); PERSIST_DIR and /code are on disk and stay
Restart ==
  /\ nrestart < MaxRestarts
  /\ phase \in {"serving", "failed"}
  /\ nrestart' = nrestart + 1
  /\ vectorstore' = None
  /\ code_hash' = EmptyStr
  /\ DDGS_SEARCH_ENABLED' = TRUE
  /\ phase' = "init"
  /\ loop' = Idle
  /\ pc' = [c \in Callers |-> "idle"]
  /\ req' = [r \in Requests |-> NoReq]
  /\ local' = [c \in Callers |-> NoLocal]
  /\ sent' = [r \in Requests |-> None]
  /\ backend' = [r \in Requests |-> None]
  /\ resp' = [r \in Requests |-> None]
  /\ hist' = HistInit
  /\ UNCHANGED <<files, store, nbuild, nedit>>
  /\ wire' = [r \in Requests |-> <<>>]
  /\ out' = [r \in Requests |-> <<>>]
  /\ UNCHANGED <<arg, ret, old>>

(* ------------------------ build_vectorstore --------------------------- *)
NeedsRebuild_nocheck(vs, new_hash, old_hash) == TRUE

NeedsRebuild_hashonly(vs, new_hash, old_hash) == new_hash # old_hash

\* line 139, negated: a build pass is needed
NeedsRebuild(vs, new_hash, old_hash) == ~(vs # None /\ new_hash = old_hash)

LoopReleased(c) == Idle

\* build_vectorstore() is called, not awaited, and awaits nothing itself
\* (lines 298, 600): the event loop stays with the caller throughout
LoopDuringBuild(c) == c

\* the models a client names in its request (one of them is the configured
\* generate model), and the options it sends: none (absent or null), an
\* empty object, an object with a member
ClientModels == {"llama3", "GENERATE_MODEL"}
ClientOptions == {<<>>, <<{}>>, <<{"temperature"}>>}

\* the request of the runs that do not vary the model and the options
DefaultModel == "llama3"
NoOptions == <<>>

\* `request_data.options or {}` (lines 448, 509): None and the empty dict
\* are falsy
OptionsOrEmpty(options) == IF options = <<>> \/ options[1] = {} THEN {} ELSE options[1]

\* the payload chat_endpoint posts (lines 505-510)
ChatPayload(rq, messages) ==
  [model |-> "CHAT_MODEL", prompt |-> <<>>, messages |-> messages, stream |-> rq.stream,
   options |-> OptionsOrEmpty(rq.options)]

GeneratePayload_clientmodel(rq, prompt) ==
  [model |-> rq.model, prompt |-> prompt, messages |-> <<>>, stream |-> rq.stream,
   options |-> OptionsOrEmpty(rq.options)]

\* the payload generate_endpoint posts (lines 444-449)
GeneratePayload(rq, prompt) ==
  [model |-> "GENERATE_MODEL", prompt |-> prompt, messages |-> <<>>, stream |-> rq.stream,
   options |-> OptionsOrEmpty(rq.options)]

ReplaceLast_first(messages, text) ==
  [messages EXCEPT ![1] = [@ EXCEPT !.content = text]]

\* messages[-1]["content"] = text
ReplaceLast(messages, text) ==
  [messages EXCEPT ![Len(messages)] = [@ EXCEPT !.content = text]]

\* the question build_augmented_prompt is called with
QuestionOf(rq) ==
  IF rq.endpoint = "chat" THEN rq.messages[Len(rq.messages)].content ELSE rq.prompt

\* The caller's next step when its augmentation raises e.
\*   startup_event : nothing catches; the server does not come up
\*   chat_endpoint : lines 500-502 restore the question, then lines 505-529
\*                   build the payload and await the post
\*   generate_endpoint : line 485 turns it into a 500
RaiseInAugment(c, e, h) ==
  /\ local' = [local EXCEPT ![c] = NoLocal]
  /\ hist' = IF c # Startup /\ req[c].endpoint = "chat"
             THEN Called(h, c, <<CallOf("post")>>) ELSE h
  /\ loop' = Idle
  /\ IF c = Startup
     THEN /\ phase' = "failed"
          /\ pc' = [pc EXCEPT ![c] = "done"]
          /\ UNCHANGED <<sent, resp>>
     ELSE IF req[c].endpoint = "chat"
     THEN /\ sent' = [sent EXCEPT ![c] =
                        <<ChatPayload(req[c],
                                      ReplaceLast(req[c].messages, QuestionOf(req[c])))>>]
          /\ pc' = [pc EXCEPT ![c] = "post"]
          /\ UNCHANGED <<phase, resp>>
     ELSE /\ resp' = [resp EXCEPT ![c] = <<ErrorResponse(generate_except(e))>>]
          /\ pc' = [pc EXCEPT ![c] = "done"]
          /\ UNCHANGED <<phase, sent>>

\* history after caller c's pass raised
BuildRaised(c) ==
  IF c = Startup THEN [hist EXCEPT !.lastBuild = "raised", !.pre = None]
  ELSE [hist EXCEPT !.lastBuild = "raised", !.pre = None, !.enrichErr[c] = "build"]

\* build_vectorstore returns normally to caller c
BuildReturns(c, h) ==
  /\ hist' = [h EXCEPT !.okClean = @ \/ h.clean, !.pre = None]
  /\ IF c = Startup
     THEN /\ phase' = "serving"
          /\ pc' = [pc EXCEPT ![c] = "done"]
          /\ loop' = Idle
     ELSE /\ pc' = [pc EXCEPT ![c] = "augment"]
          /\ UNCHANGED <<phase, loop>>

\* lines 137-142: the fingerprint is computed and compared; a pass that is
\* needed stores the new fingerprint first
bv_hash(c) ==
  /\ loop = c /\ pc[c] = "bv_hash"
  /\ LET new_hash == hash_code_dir(files)
         h == Called([hist EXCEPT !.clean = TRUE], c, <<CallOf("build_vectorstore")>>)
     IN  IF NeedsRebuild(vectorstore, new_hash, code_hash)
         THEN /\ nbuild < MaxBuilds
              /\ code_hash' = new_hash
              /\ nbuild' = nbuild + 1
              /\ local' = [local EXCEPT ![c] = [build |-> nbuild + 1]]
              /\ pc' = [pc EXCEPT ![c] = "bv_build"]
              /\ loop' = LoopDuringBuild(c)
              /\ hist' = [h EXCEPT
                            !.pre = <<[code_hash |-> code_hash, vectorstore |-> vectorstore,
                                       store |-> store]>>,
                            !.lastBuild = "running",
                            !.passes = IF vectorstore # None THEN @ + 1 ELSE @]
              /\ UNCHANGED phase
         ELSE /\ BuildReturns(c, h)
              /\ UNCHANGED <<code_hash, nbuild, local>>
  /\ UNCHANGED <<files, store, vectorstore, DDGS_SEARCH_ENABLED, req, sent, backend, resp,
                 nedit, nrestart>>
  /\ UNCHANGED <<wire, out, arg, ret, old>>

\* where a pass can raise: loader.load() on a file it cannot read or decode
\* (line 166), the embedding call inside either Chroma.from_documents (lines
\* 176, 202) when the embedding server fails
BuildFaults == {"none", "embed_gen"}

\* lines 144-213, the pass itself.  The files are loaded and cleaned;
\* Chroma.from_documents opens (or creates) the collection "chat_context" of
\* PERSIST_DIR, embeds the documents and adds them; the documents are split
\* and the empty splits dropped; the length histogram is printed (max() of no
\* value raises ValueError); the splits are embedded and added to
\* "code_completion"; the dict of the two collection objects is assigned.
bv_build(c) ==
  /\ loop = c /\ pc[c] = "bv_build"
  /\ \/ /\ RaiseInAugment(c, Exc("LoadError", 0, <<"load">>, <<>>), BuildRaised(c))
        /\ UNCHANGED <<store, vectorstore>>
     \/ /\ RaiseInAugment(c, Exc("EmbedError", 0, <<"embed">>, <<>>), BuildRaised(c))
        /\ UNCHANGED <<store, vectorstore>>
     \/ \E fault \in BuildFaults, order \in Listings :
        \E all_docs \in {LoadDocs(files, order)} :
        \E splits \in {NonEmptySplits(SplitDocs(all_docs))} :
          LET b == local[c].build
              withChat == [store EXCEPT !["chat_context"] = @ \cup UnitsOf(all_docs, b)]
          IN  IF splits = <<>>
              THEN /\ RaiseInAugment(c, Exc("ValueError", 0,
                                            <<"max() arg is an empty sequence">>, <<>>),
                                     BuildRaised(c))
                   /\ store' = withChat
                   /\ UNCHANGED vectorstore
              ELSE IF fault = "embed_gen"
              THEN /\ RaiseInAugment(c, Exc("EmbedError", 0, <<"embed">>, <<>>),
                                     BuildRaised(c))
                   /\ store' = withChat
                   /\ UNCHANGED vectorstore
              ELSE /\ store' = [withChat EXCEPT
                                  !["code_completion"] = @ \cup UnitsOf(splits, b)]
                   /\ vectorstore' = <<[chat |-> Handle("chat_context", b),
                                        generate |-> Handle("code_completion", b)]>>
                   /\ BuildReturns(c, [hist EXCEPT !.lastBuild = "ok"])
                   /\ UNCHANGED <<local, sent, resp>>
  /\ UNCHANGED <<files, code_hash, DDGS_SEARCH_ENABLED, req, backend, nbuild, nedit,
                 nrestart>>
  /\ UNCHANGED <<wire, out, arg, ret, old>>

\* lines 597-601: the startup hook builds the index
startup_event ==
  /\ phase = "init" /\ loop = Idle /\ pc[Startup] = "idle"
  /\ phase' = "starting"
  /\ loop' = Startup
  /\ pc' = [pc EXCEPT ![Startup] = "bv_hash"]
  /\ UNCHANGED <<files, store, vectorstore, code_hash, DDGS_SEARCH_ENABLED, req, local,
                 sent, backend, resp, nbuild, nedit, nrestart, hist>>
  /\ UNCHANGED <<wire, out, arg, ret, old>>

(* ----------------------------- requests ------------------------------- *)
\* the server takes requests once it is up; a harness that runs the app
\* without its lifespan events serves them with the startup hook never run
Serving == phase \in {"init", "serving"}

\* request slots are taken in order (slot numbers are names, nothing more)
NextSlot(r) == pc[r] = "idle" /\ (r = 1 \/ pc[r - 1] # "idle")

\* a body that fails the pydantic model of the endpoint (lines 266-290) is
\* answered 422 by the framework; the handler is not entered
reject_malformed(r) ==
  /\ Serving /\ loop = Idle /\ NextSlot(r)
  /\ phase' = "serving"
  /\ pc' = [pc EXCEPT ![r] = "done"]
  /\ req' = [req EXCEPT ![r] = [NoReq EXCEPT !.endpoint = "malformed"]]
  /\ resp' = [resp EXCEPT ![r] =
                <<[status |-> 422, kind |-> "error", body |-> <<"validation error">>]>>]
  /\ UNCHANGED <<files, store, vectorstore, code_hash, DDGS_SEARCH_ENABLED, loop, local,
                 sent, backend, nbuild, nedit, nrestart, hist>>
  /\ UNCHANGED <<wire, out, arg, ret, old>>

\* bodies a client posts to /debug: a JSON document, a text that is no JSON,
\* bytes that are no UTF-8
DebugBodies == { <<"{", "}">>, <<"{">>, <<"0xFF">> }

\* `await request.json()` (line 615), json.loads of the body bytes: the
\* bytes are decoded first (UnicodeDecodeError), then parsed (JSONDecodeError)
request_json(body) ==
  IF \E i \in 1..Len(body) : body[i] = "0xFF" THEN "UnicodeDecodeError"
  ELSE IF body = <<"{", "}">> THEN "ok"
  ELSE "JSONDecodeError"

\* debug_endpoint (lines 611-621): the parsed body is echoed; the except
\* clause turns a JSONDecodeError into a 400; any other exception leaves the
\* handler and the server answers 500
debug_endpoint(r, body) ==
  /\ Serving /\ loop = Idle /\ NextSlot(r)
  /\ phase' = "serving"
  /\ pc' = [pc EXCEPT ![r] = "done"]
  /\ req' = [req EXCEPT ![r] = [NoReq EXCEPT !.endpoint = "debug", !.prompt = body]]
  /\ resp' = [resp EXCEPT ![r] =
       IF request_json(body) = "ok"
       THEN <<[status |-> 200, kind |-> "json",
               body |-> <<"{", "\"status\":\"success\"", ",", "\"received_body\":">>
                          \o body \o <<"}">>]>>
       ELSE IF request_json(body) = "JSONDecodeError"
       THEN <<ErrorResponse(HTTPException(400, <<"Invalid JSON format">>))>>
       ELSE <<[status |-> 500, kind |-> "error", body |-> <<"Internal Server Error">>]>>]
  /\ UNCHANGED <<files, store, vectorstore, code_hash, DDGS_SEARCH_ENABLED, loop, local,
                 sent, backend, nbuild, nedit, nrestart, hist>>
  /\ UNCHANGED <<wire, out, arg, ret, old>>

\* generate_endpoint up to its first statement that can take time: line 441
\* enters build_augmented_prompt -> perform_rag_search -> build_vectorstore
generate_request(r, stream, model, options) ==
  /\ Serving /\ loop = Idle /\ NextSlot(r)
  /\ phase' = "serving"
  /\ loop' = r
  /\ pc' = [pc EXCEPT ![r] = "bv_hash"]
  /\ req' = [req EXCEPT ![r] = [NoReq EXCEPT !.endpoint = "generate", !.prompt = Question,
                                             !.stream = stream, !.model = model,
                                             !.options = options]]
  /\ UNCHANGED <<files, store, vectorstore, code_hash, DDGS_SEARCH_ENABLED, local, sent,
                 backend, resp, nbuild, nedit, nrestart, hist>>
  /\ UNCHANGED <<wire, out, arg, ret, old>>

\* chat_endpoint, lines 491-497 and 505-529: a conversation whose last
\* message is the user's is augmented; any other is posted as it is
chat_request(r, messages, stream, model, options) ==
  /\ Serving /\ loop = Idle /\ NextSlot(r)
  /\ phase' = "serving"
  /\ LET rq == [NoReq EXCEPT !.endpoint = "chat", !.messages = messages, !.stream = stream,
                             !.model = model, !.options = options]
     IN  /\ req' = [req EXCEPT ![r] = rq]
         /\ IF messages # <<>> /\ messages[Len(messages)].role = "user"
            THEN /\ loop' = r
                 /\ pc' = [pc EXCEPT ![r] = "bv_hash"]
                 /\ UNCHANGED <<sent, hist>>
            ELSE /\ sent' = [sent EXCEPT ![r] = <<ChatPayload(rq, messages)>>]
                 /\ pc' = [pc EXCEPT ![r] = "post"]
                 /\ hist' = Called(hist, r, <<CallOf("post")>>)
                 /\ UNCHANGED loop
  /\ UNCHANGED <<files, store, vectorstore, code_hash, DDGS_SEARCH_ENABLED, local,
                 backend, resp, nbuild, nedit, nrestart>>
  /\ UNCHANGED <<wire, out, arg, ret, old>>

\* the handlers on a request that names DefaultModel and sends no options
generate_endpoint(r, stream) == generate_request(r, stream, DefaultModel, NoOptions)
chat_endpoint(r, messages, stream) == chat_request(r, messages, stream, DefaultModel, NoOptions)

KOf_same(mode) == K_GENERATE

\* build_augmented_prompt's k (line 390)
KOf(mode) == IF mode = "chat" THEN K_CHAT ELSE K_GENERATE

\* perform_web_search (lines 303-321): the text it returns.  With the flag
\* off, the notice; when the search raises, the except clause's text; when
\* the search succeeds the function ends without a return statement, and the
\* f-string of the template renders the None it gives as "None".
perform_web_search(enabled, raised) ==
  IF ~enabled THEN <<"Recherche web désactivée">>
  ELSE IF raised THEN <<"Erreur recherche web: ", "ddgs">>
  ELSE <<"None">>

\* web_info (lines 315-318), the text perform_web_search makes of the
\* results of a search that succeeded: one entry per result
web_info(results) ==
  IF results = <<>> THEN <<"Aucun résultat web trouvé.">>
  ELSE Join([i \in 1..Len(results) |->
               <<"- [" \o results[i].title \o "](" \o results[i].href \o "): "
                   \o results[i].body \o "...">>],
            <<"\n">>)

\* what the DDGS search returns when it succeeds
WebResults == <<[title |-> "T", href |-> "http://h", body |-> "B"]>>

WebSearchCalled_noflag(mode, enabled) == mode = "chat"

\* the DDGS provider is called: build_augmented_prompt line 392 calls
\* perform_web_search in chat mode only, line 305 returns before the search
\* when the flag is off
WebSearchCalled(mode, enabled) == mode = "chat" /\ enabled

\* what the collaborators of an augmentation do: the embedding of the query
\* fails or not (similarity_search), the web search raises or not
AugmentFaults == {"none", "search", "web"}

\* the rest of build_augmented_prompt once build_vectorstore has returned,
\* and the handler up to its post: perform_rag_search lines 300-301,
\* perform_web_search for chat (line 393), the template (397-402); then
\* generate_endpoint lines 444-456, or chat_endpoint lines 498 and 505-529
augment(r) ==
  /\ loop = r /\ pc[r] = "augment"
  /\ LET mode == req[r].endpoint
         question == QuestionOf(req[r])
     IN  \E fault \in AugmentFaults :
           IF vectorstore = None
           THEN RaiseInAugment(r, Exc("TypeError", 0, <<"'NoneType' object is not subscriptable">>,
                                      <<>>),
                               [hist EXCEPT !.enrichErr[r] = "search"])
           ELSE IF fault = "search"
           THEN RaiseInAugment(r, Exc("EmbedError", 0, <<"embed">>, <<>>),
                               Called([hist EXCEPT !.enrichErr[r] = "search"], r,
                                      <<Call("similarity_search", vectorstore[1][mode].name,
                                             KOf(mode), embed_query(question), 0)>>))
           ELSE
             \E rag_docs \in {similarity_search(store[vectorstore[1][mode].name], KOf(mode))} :
             LET rag_context == RagContext(rag_docs)
                 searched == Call("similarity_search", vectorstore[1][mode].name, KOf(mode),
                                  embed_query(question),
                                  Len(FormatFrom(rag_docs, 1, {})) \div 2)
             IN  /\ IF mode = "chat"
                    THEN /\ fault = "web" => WebSearchCalled(mode, DDGS_SEARCH_ENABLED)
                         /\ LET web_context ==
                                  perform_web_search(WebSearchCalled(mode, DDGS_SEARCH_ENABLED),
                                                     fault = "web")
                                augmented_prompt ==
                                  build_enhanced_prompt(mode, question, rag_context,
                                                        web_context)
                            IN  sent' = [sent EXCEPT ![r] =
                                  <<ChatPayload(req[r],
                                      ReplaceLast(req[r].messages,
                                                  SentPrompt(mode, augmented_prompt)))>>]
                         /\ hist' = Called([hist EXCEPT
                                       !.enrichErr[r] = IF fault = "web" THEN "web" ELSE @,
                                       !.web[r] =
                                         IF ~WebSearchCalled(mode, DDGS_SEARCH_ENABLED)
                                         THEN "skipped"
                                         ELSE IF fault = "web" THEN "raised" ELSE "ok"],
                                       r, <<searched, CallOf("perform_web_search"),
                                            CallOf("build_enhanced_prompt"), CallOf("post")>>)
                    ELSE /\ fault = "none"
                         /\ sent' = [sent EXCEPT ![r] =
                              <<GeneratePayload(req[r],
                                  SentPrompt(mode,
                                    build_enhanced_prompt(mode, question, rag_context,
                                                          <<>>)))>>]
                         /\ hist' = Called(hist, r, <<searched, CallOf("build_enhanced_prompt"),
                                                      CallOf("post")>>)
                 /\ local' = [local EXCEPT ![r] = NoLocal]
                 /\ pc' = [pc EXCEPT ![r] = "post"]
                 /\ loop' = Idle
                 /\ UNCHANGED <<phase, resp>>
  /\ UNCHANGED <<files, store, vectorstore, code_hash, DDGS_SEARCH_ENABLED, req, backend,
                 nbuild, nedit, nrestart>>
  /\ UNCHANGED <<wire, out, arg, ret, old>>

\* what the backend does with a post: a 2xx answer, an error status, or no
\* answer (connection refused, timeout)
BackendAnswers ==
  { [kind |-> "ok", status |-> 200, body |-> <<"{", "\"response\":\"a\"", "}">>],
    [kind |-> "ok", status |-> 200,
     body |-> <<"{", " ", "\"response\":\"a\"", ",", "\n", "\"done\":true", "}">>],
    [kind |-> "status", status |-> 404, body |-> <<"model not found">>],
    [kind |-> "unreachable", status |-> 0, body |-> <<>>] }

\* the exception client.post / raise_for_status raise for a backend answer
BackendExc(a) ==
  IF a.kind = "status"
  THEN Exc("HTTPStatusError", a.status,
           <<"Client error '", ToString(a.status), "' for url">>, a.body)
  ELSE Exc("RequestError", 0, <<"All connection attempts failed">>, <<>>)

\* the frames a streaming backend writes: one JSON line each; a frame may
\* hold a byte that is no UTF-8
Frames ==
  { <<"{\"response\":\"a\"}", "\n">>, <<"{\"response\":\"b\"}", "\n">>, <<"0xFF", "\n">> }

\* the backend writes one more frame of a streamed answer.  The handler is
\* suspended in `await client.post(...)` (lines 452, 525), which returns when
\* the response has been read to its end.
backend_frame(r, f) ==
  /\ pc[r] = "post" /\ sent[r][1].stream
  /\ Len(wire[r]) < MaxFrames
  /\ wire' = [wire EXCEPT ![r] = Append(@, f)]
  /\ UNCHANGED <<files, store, vectorstore, code_hash, DDGS_SEARCH_ENABLED, phase, loop,
                 pc, req, local, sent, backend, resp, nbuild, nedit, nrestart, hist,
                 out, arg, ret, old>>

\* the answer the post returns with: for a streamed 2xx answer the body is
\* all the frames the backend wrote; an error status comes with no frame
AnswerOf(a, frames, stream) ==
  IF stream /\ a.kind = "ok" THEN [a EXCEPT !.body = Concat(frames)] ELSE a

\* the white space JSON allows between tokens
JsonWhitespace == {" ", "\n", "\t", "\r"}

response_json_rewritten(body) == <<"{", "\"model\":\"proxy\"", "}">>

\* response.json() (lines 460, 534) and the JSON response the framework
\* renders of it: the document is parsed and serialised again, white space
\* between its tokens is not kept
response_json(body) == SelectSeq(body, LAMBDA tok : tok \notin JsonWhitespace)

relay_retry(r, a) ==
  /\ loop = Idle /\ pc[r] = "post"
  /\ a.kind = "status" => wire[r] = <<>>
  /\ LET ans == AnswerOf(a, wire[r], sent[r][1].stream)
     IN  /\ backend' = [backend EXCEPT ![r] = <<ans>>]
         /\ pc' = [pc EXCEPT ![r] =
                     IF a.kind = "ok" /\ req[r].stream THEN "streaming"
                     ELSE IF a.kind = "unreachable" THEN "post" ELSE "done"]
         /\ resp' = [resp EXCEPT ![r] =
              IF a.kind = "ok"
              THEN IF req[r].stream
                   THEN <<[status |-> 200, kind |-> "stream", body |-> <<>>]>>
                   ELSE <<[status |-> 200, kind |-> "json", body |-> response_json(ans.body)]>>
              ELSE IF req[r].endpoint = "generate"
                   THEN <<ErrorResponse(generate_except(BackendExc(a)))>>
                   ELSE <<ErrorResponse(chat_outer_except(chat_inner_except(BackendExc(a))))>>]
  /\ UNCHANGED <<files, store, vectorstore, code_hash, DDGS_SEARCH_ENABLED, phase, loop,
                 req, local, sent, nbuild, nedit, nrestart, hist>>
  /\ UNCHANGED <<wire, out, arg, ret, old>>

\* the rest of a handler once the post has completed: generate_endpoint
\* lines 457-486, chat_endpoint lines 530-567.  A 2xx answer to a streaming
\* request returns the StreamingResponse over generate_stream().
relay(r, a) ==
  /\ loop = Idle /\ pc[r] = "post"
  /\ a.kind = "status" => wire[r] = <<>>
  /\ LET ans == AnswerOf(a, wire[r], sent[r][1].stream)
     IN  /\ backend' = [backend EXCEPT ![r] = <<ans>>]
         /\ pc' = [pc EXCEPT ![r] =
                     IF a.kind = "ok" /\ req[r].stream THEN "streaming" ELSE "done"]
         /\ resp' = [resp EXCEPT ![r] =
              IF a.kind = "ok"
              THEN IF req[r].stream
                   THEN <<[status |-> 200, kind |-> "stream", body |-> <<>>]>>
                   ELSE <<[status |-> 200, kind |-> "json", body |-> response_json(ans.body)]>>
              ELSE IF req[r].endpoint = "generate"
                   THEN <<ErrorResponse(generate_except(BackendExc(a)))>>
                   ELSE <<ErrorResponse(chat_outer_except(chat_inner_except(BackendExc(a))))>>]
  /\ UNCHANGED <<files, store, vectorstore, code_hash, DDGS_SEARCH_ENABLED, phase, loop,
                 req, local, sent, nbuild, nedit, nrestart, hist>>
  /\ UNCHANGED <<wire, out, arg, ret, old>>

\* bytes.decode("utf-8", errors="replace"), as httpx's TextDecoder does it
Decode(bytes) == [i \in 1..Len(bytes) |-> IF bytes[i] = "0xFF" THEN "U+FFFD" ELSE bytes[i]]

\* str.encode("utf-8"), as StreamingResponse does it for a str chunk: a
\* token of the model names its own UTF-8 bytes
Encode(text) == [i \in 1..Len(text) |-> text[i]]

\* response.aiter_text() (lines 466, 540) on a response whose content has
\* been read: aiter_bytes yields the content as one chunk of its full length
\* (none when it is empty), the decoder turns it into text
aiter_text(content) == IF content = <<>> THEN <<>> ELSE <<Decode(content)>>

stream_emit_early(r) ==
  /\ loop = Idle /\ pc[r] = "post" /\ sent[r][1].stream
  /\ Len(out[r]) < Len(wire[r])
  /\ out' = [out EXCEPT ![r] = Append(@, wire[r][Len(out[r]) + 1])]
  /\ UNCHANGED <<files, store, vectorstore, code_hash, DDGS_SEARCH_ENABLED, phase, loop,
                 pc, req, local, sent, backend, resp, nbuild, nedit, nrestart, hist,
                 wire, arg, ret, old>>

\* generate_stream() yields its next chunk and the server writes it to the
\* client (lines 464-468, 538-542)
stream_emit(r) ==
  /\ loop = Idle /\ pc[r] = "streaming"
  /\ LET chunks == aiter_text(backend[r][1].body)
     IN  /\ Len(out[r]) < Len(chunks)
         /\ out' = [out EXCEPT ![r] = Append(@, Encode(chunks[Len(out[r]) + 1]))]
  /\ UNCHANGED <<files, store, vectorstore, code_hash, DDGS_SEARCH_ENABLED, phase, loop,
                 pc, req, local, sent, backend, resp, nbuild, nedit, nrestart, hist,
                 wire, arg, ret, old>>

\* generate_stream() is exhausted: the response ends
stream_end(r) ==
  /\ loop = Idle /\ pc[r] = "streaming"
  /\ Len(out[r]) = Len(aiter_text(backend[r][1].body))
  /\ pc' = [pc EXCEPT ![r] = "done"]
  /\ UNCHANGED <<files, store, vectorstore, code_hash, DDGS_SEARCH_ENABLED, phase, loop,
                 req, local, sent, backend, resp, nbuild, nedit, nrestart, hist,
                 wire, out, arg, ret, old>>

\* the client of a streaming request drops its connection, while the handler
\* awaits the backend's answer or while the answer is relayed
client_disconnect(r) ==
  /\ pc[r] \in {"post", "streaming"} /\ req[r].stream
  /\ ~hist.gone[r]
  /\ hist' = [hist EXCEPT !.gone[r] = TRUE]
  /\ UNCHANGED <<files, store, vectorstore, code_hash, DDGS_SEARCH_ENABLED, phase, loop,
                 pc, req, local, sent, backend, resp, nbuild, nedit, nrestart,
                 wire, out, arg, ret, old>>

stream_cancel_all(r) ==
  /\ loop = Idle /\ pc[r] = "streaming" /\ hist.gone[r]
  /\ pc' = [c \in Callers |-> IF pc[c] = "streaming" THEN "cancelled" ELSE pc[c]]
  /\ UNCHANGED <<files, store, vectorstore, code_hash, DDGS_SEARCH_ENABLED, phase, loop,
                 req, local, sent, backend, resp, nbuild, nedit, nrestart, hist,
                 wire, out, arg, ret, old>>

\* the StreamingResponse (lines 470-478, 544-552) has been told of the
\* disconnect: the task that runs generate_stream() is cancelled and the
\* generator is closed.  The httpx client and its response were closed when
\* the handler left its `async with` block, before the relay began.
stream_cancel(r) ==
  /\ loop = Idle /\ pc[r] = "streaming" /\ hist.gone[r]
  /\ pc' = [pc EXCEPT ![r] = "cancelled"]
  /\ UNCHANGED <<files, store, vectorstore, code_hash, DDGS_SEARCH_ENABLED, phase, loop,
                 req, local, sent, backend, resp, nbuild, nedit, nrestart, hist,
                 wire, out, arg, ret, old>>

\* GET /control/enable_web_search (lines 604-608)
enable_web_search(enabled) ==
  /\ Serving /\ loop = Idle
  /\ enabled # DDGS_SEARCH_ENABLED
  /\ DDGS_SEARCH_ENABLED' = enabled
  /\ phase' = "serving"
  /\ UNCHANGED <<files, store, vectorstore, code_hash, loop, pc, req, local, sent,
                 backend, resp, nbuild, nedit, nrestart, hist>>
  /\ UNCHANGED <<wire, out, arg, ret, old>>

(* ------------------------------ system -------------------------------- *)
Next ==
  \/ \E f \in FileSet, c \in Contents : ModifyFile(f, c)
  \/ Restart
  \/ startup_event
  \/ \E c \in Callers : bv_hash(c)
  \/ \E c \in Callers : bv_build(c)
  \/ \E r \in Requests : reject_malformed(r)
  \/ \E r \in Requests, b \in DebugBodies : debug_endpoint(r, b)
  \/ \E r \in Requests, st \in BOOLEAN : generate_endpoint(r, st)
  \/ \E r \in Requests, m \in Conversations, st \in BOOLEAN : chat_endpoint(r, m, st)
  \/ \E r \in Requests : augment(r)
  \/ \E r \in Requests, f \in Frames : backend_frame(r, f)
  \/ \E r \in Requests, a \in BackendAnswers : relay(r, a)
  \/ \E r \in Requests : stream_emit(r)
  \/ \E r \in Requests : stream_end(r)
  \/ \E r \in Requests : client_disconnect(r)
  \/ \E r \in Requests : stream_cancel(r)
  \/ \E e \in BOOLEAN : enable_web_search(e)

\* the whole system
Spec == Init /\ [][Next]_vars

\* The index manager with its environment: files change, the process
\* restarts, the startup hook and /api/generate requests run their freshness
\* checks and retrievals.  (A /api/chat request calls build_vectorstore
\* through the same perform_rag_search; what differs is what its handler does
\* afterwards, which SpecRelay and Spec cover.)
NextIndex ==
  \/ \E f \in FileSet, c \in Contents : ModifyFile(f, c)
  \/ Restart
  \/ startup_event
  \/ \E c \in Callers : bv_hash(c)
  \/ \E c \in Callers : bv_build(c)
  \/ \E r \in Requests : generate_endpoint(r, FALSE)
  \/ \E r \in Requests : augment(r)

SpecIndex == Init /\ [][NextIndex]_vars

\* The relay over a source tree that stays as it is, in one run of the
\* process: non-streaming requests of every kind, every backend answer, the
\* flag.
NextRelay ==
  \/ startup_event
  \/ \E c \in Callers : bv_hash(c)
  \/ \E c \in Callers : bv_build(c)
  \/ \E r \in Requests : reject_malformed(r)
  \/ \E r \in Requests, b \in DebugBodies : debug_endpoint(r, b)
  \/ \E r \in Requests : generate_endpoint(r, FALSE)
  \/ \E r \in Requests, m \in Conversations : chat_endpoint(r, m, FALSE)
  \/ \E r \in Requests : augment(r)
  \/ \E r \in Requests, a \in BackendAnswers : relay(r, a)
  \/ \E e \in BOOLEAN : enable_web_search(e)

SpecRelay == Init /\ [][NextRelay]_vars

(* ------------------------------ claims -------------------------------- *)
\* the builds whose units a collection holds
BuildsOf(units) == {u.build : u \in units}

\* the text a posted payload carries for the question
SentText(p) ==
  IF p.messages # <<>> THEN p.messages[Len(p.messages)].content ELSE p.prompt

\* why a finished request did not get a plain answer
Cause(r) ==
  IF req[r].endpoint = "malformed" THEN "invalid"
  ELSE IF backend[r] # None THEN backend[r][1].kind
  ELSE "none"

\* C1 (idempotence): once a freshness check has returned normally and no
\* source file has changed since it took its fingerprint, a further freshness
\* check starts no build pass and leaves the fingerprint, the installed index
\* and both collections as they are.
C1_Idempotence ==
  [][ \A c \in Callers :
        (hist.okClean /\ pc[c] = "bv_hash" /\ pc'[c] # "bv_hash" /\ nrestart' = nrestart)
        => /\ nbuild' = nbuild
           /\ code_hash' = code_hash
           /\ vectorstore' = vectorstore
           /\ store' = store ]_vars

\* a request has passed its freshness check without building, after a
\* successful check on the same files
C1_Witness ==
  /\ hist.okClean /\ nbuild >= 1 /\ vectorstore # None
  /\ \E r \in Requests : pc[r] = "augment" /\ local[r].build = 0

\* C2 (failure isolation): when a build pass that began with a working index
\* raises, the fingerprint, the installed index and both collections are what
\* they were when the pass began.
C2_FailureIsolation ==
  [][ \A c \in Callers :
        (/\ pc[c] = "bv_build"
         /\ hist'.lastBuild = "raised"
         /\ hist.pre[1].vectorstore # None)
        => /\ code_hash' = hist.pre[1].code_hash
           /\ vectorstore' = hist.pre[1].vectorstore
           /\ store' = hist.pre[1].store ]_vars

\* C3 (atomic replacement): the two collections requests can query hold the
\* units of the same builds: never one with a build's units and the other
\* without.
C3_AtomicReplacement ==
  vectorstore # None
  => BuildsOf(store[vectorstore[1].chat.name]) = BuildsOf(store[vectorstore[1].generate.name])

\* C4 (single rebuild): at most one caller is inside a build pass, and while
\* it is, every other caller is idle, waiting for the backend, or finished:
\* none runs a freshness check or a second pass.
C4_SingleRebuild ==
  \A c \in Callers :
    pc[c] = "bv_build" => \A d \in Callers \ {c} : pc[d] \in {"idle", "post", "done"}

\* a pass runs while another request is in flight
C4_Witness ==
  \E c \in Requests : pc[c] = "bv_build" /\ \E d \in Requests \ {c} : pc[d] = "post"

\* C5 (rebuild exactly on change): a freshness check starts a build pass
\* exactly when no index is installed or the fingerprint of the files differs
\* from the stored one; and with an index installed, at most one pass starts
\* between two changes of the files.
C5_RebuildExactlyOnChange ==
  [][ /\ \A c \in Callers :
           (pc[c] = "bv_hash" /\ pc'[c] # "bv_hash" /\ nrestart' = nrestart)
           => ((pc'[c] = "bv_build")
               <=> (vectorstore = None \/ hash_code_dir(files) # code_hash))
      /\ hist'.passes <= 1 ]_vars

\* after a change one pass has run, and a later check has passed without one
C5_Witness ==
  /\ nedit >= 1 /\ hist.passes = 1 /\ hist.lastBuild = "ok"
  /\ \E r \in Requests : pc[r] = "augment" /\ local[r].build = 0

\* C6 (collection replacement): after a successful build pass each collection
\* holds the units of that pass only.
C6_CollectionReplacement ==
  (vectorstore # None /\ hist.lastBuild = "ok")
  => \A key \in {"chat", "generate"} :
       \A u \in store[vectorstore[1][key].name] : u.build = vectorstore[1][key].build

\* C7 (fallback on enrichment failure): when something raised during a
\* request's augmentation, the text posted to the backend is the question as
\* the client sent it.
C7_FallbackOnEnrichmentFailure ==
  \A r \in Requests :
    (hist.enrichErr[r] # "none" /\ sent[r] # None)
    => SentText(sent[r][1]) = QuestionOf(req[r])

\* C8 (enrichment failures invisible): a request whose augmentation raised
\* is still posted to the backend, and what the client gets is made of the
\* backend's answer.
C8_EnrichmentFailuresInvisible ==
  \A r \in Requests :
    (hist.enrichErr[r] # "none" /\ pc[r] = "done")
    => sent[r] # None /\ backend[r] # None

\* C9 (typed upstream error): when the backend answers with an error status,
\* the response is not the generic internal error: it has a status of its own
\* and carries the backend's status and body.
C9_TypedUpstreamError ==
  \A r \in Requests :
    (pc[r] = "done" /\ Cause(r) = "status")
    => /\ resp[r][1].status # 500
       /\ \E i \in 1..Len(resp[r][1].body) :
            resp[r][1].body[i] = ToString(backend[r][1].status)
       /\ \E i \in 1..Len(resp[r][1].body) :
            resp[r][1].body[i] = backend[r][1].body[1]

\* C10 (distinct upstream-unavailable class): a backend that cannot be
\* reached, a backend that refuses the request and an invalid request are
\* answered with different statuses.
C10_DistinctUnavailableClass ==
  \A r1, r2 \in Requests :
    (/\ pc[r1] = "done" /\ pc[r2] = "done"
     /\ Cause(r1) \in {"unreachable", "status", "invalid"}
     /\ Cause(r2) \in {"unreachable", "status", "invalid"}
     /\ Cause(r1) # Cause(r2))
    => resp[r1][1].status # resp[r2][1].status

\* The streaming relay over a source tree that stays as it is: streaming
\* requests, the backend writing its frames, the relay of the streamed answer.
NextStream ==
  \/ startup_event
  \/ \E c \in Callers : bv_hash(c)
  \/ \E c \in Callers : bv_build(c)
  \/ \E r \in Requests : generate_endpoint(r, TRUE)
  \/ \E r \in Requests, m \in Conversations : chat_endpoint(r, m, TRUE)
  \/ \E r \in Requests : augment(r)
  \/ \E r \in Requests, f \in Frames : backend_frame(r, f)
  \/ \E r \in Requests, a \in BackendAnswers : relay(r, a)
  \/ \E r \in Requests : stream_emit(r)
  \/ \E r \in Requests : stream_end(r)

SpecStream == Init /\ [][NextStream]_vars

\* C11 (streaming pass-through): when a streamed response has ended, the
\* chunks the client received are the frames the backend wrote, one for one,
\* in order, byte for byte.
C11_StreamingPassThrough ==
  \A r \in Requests :
    (pc[r] = "done" /\ resp[r] # None /\ resp[r][1].kind = "stream") => out[r] = wire[r]

\* C12 (incremental relay): the relay never holds a whole backend response
\* of several frames while the client has received nothing of it.
C12_IncrementalRelay ==
  \A r \in Requests :
    (req[r].stream /\ backend[r] # None /\ backend[r][1].kind = "ok" /\ Len(wire[r]) >= 2)
    => out[r] # <<>>

(* ------------------------- format_context ----------------------------- *)
\* documents a retrieval can return: a chunk text and the file it is from
DocSet ==
  {[source |-> f, page_content |-> t] : f \in FileSet, t \in {<<"A">>, <<"B">>, <<"C">>}}

DocSeqs == UNION {[1..n -> DocSet] : n \in 0..MaxDocs}

\* format_context is given a retrieval result
InitFormat == ProgramInit /\ arg \in {<<docs>> : docs \in DocSeqs} /\ ret = None

\* perform_rag_search line 301: format_context(rag_docs)
call_format_context ==
  /\ arg # None /\ ret = None
  /\ ret' = <<format_context(arg[1])>>
  /\ UNCHANGED <<serverVars, arg>>

SpecFormat == InitFormat /\ [][call_format_context]_vars

\* the positions of the first occurrence of each chunk text, in retrieval order
FirstOccurrences(docs) ==
  SelectSeq([i \in 1..Len(docs) |-> i],
            LAMBDA i : \A j \in 1..(i - 1) : docs[j].page_content # docs[i].page_content)

\* C13 (deduplication): the rendered context is made of one entry per
\* distinct chunk text, the entry of its first occurrence (header of that
\* occurrence, then the text), the entries in retrieval order.
C13_Deduplication ==
  ret # None =>
    LET docs == arg[1]
        kept == FirstOccurrences(docs)
        entry(n) ==
          << <<"### Fichier: " \o docs[kept[n]].source \o " (Extrait "
                 \o ToString(kept[n]) \o ") ###">>,
             <<"    ">> \o docs[kept[n]].page_content >>
        entries == [n \in 1..(2 * Len(kept)) |-> entry((n + 1) \div 2)[2 - (n % 2)]]
    IN  ret[1] = Join(entries, <<"\n\n">>)

\* [A, B, A, C] has been rendered
C13_Witness ==
  /\ ret # None
  /\ [i \in 1..Len(arg[1]) |-> arg[1][i].page_content] = << <<"A">>, <<"B">>, <<"A">>, <<"C">> >>

(* --------------------------- truncation ------------------------------- *)
\* lengths of augmented prompts: empty, one character, and around the cut
PromptLengths ==
  {0, 1} \cup ((TRUNCATE_CHARS - MaxSlack)..(TRUNCATE_CHARS + MaxSlack))

\* a prompt of n characters: "a", "b", "c" in turn, starting at the k-th
PromptOf(n, k) ==
  [i \in 1..n |-> IF (i + k) % 3 = 0 THEN "a" ELSE IF (i + k) % 3 = 1 THEN "b" ELSE "c"]

\* a handler has its augmented prompt
InitTruncate ==
  /\ ProgramInit
  /\ arg \in {<<[mode |-> m, augmented_prompt |-> PromptOf(n, k)]>> :
                m \in Modes, n \in PromptLengths, k \in 0..2}
  /\ ret = None

\* chat_endpoint line 498, generate_endpoint line 446
call_truncate ==
  /\ arg # None /\ ret = None
  /\ ret' = <<SentPrompt(arg[1].mode, arg[1].augmented_prompt)>>
  /\ UNCHANGED <<serverVars, arg>>

SpecTruncate == InitTruncate /\ [][call_truncate]_vars

\* C14 (chat truncation): in chat mode a prompt of more than 8000 characters
\* is sent as its last 8000 characters, a shorter one whole; in generate mode
\* the prompt is sent whole.
C14_ChatTruncation ==
  ret # None =>
    LET t == arg[1].augmented_prompt
        n == Len(t)
    IN  IF arg[1].mode = "chat" /\ n > 8000
        THEN /\ Len(ret[1]) = 8000
             /\ \A i \in 1..8000 : ret[1][i] = t[n - 8000 + i]
        ELSE ret[1] = t

\* a chat prompt longer than the cut has been cut
C14_Witness ==
  ret # None /\ arg[1].mode = "chat" /\ Len(arg[1].augmented_prompt) > 8000

(* ------------------------------ /api/chat ----------------------------- *)
\* the position of the last message of role user
LastUser(messages) ==
  CHOOSE i \in 1..Len(messages) :
    /\ messages[i].role = "user"
    /\ \A j \in (i + 1)..Len(messages) : messages[j].role # "user"

\* C15 (last user message augmented): a chat request that holds a user
\* message and whose augmentation did not raise is posted with the content
\* of its last user message replaced by the augmented text.
C15_LastUserMessageAugmented ==
  \A r \in Requests :
    (/\ req[r].endpoint = "chat"
     /\ sent[r] # None
     /\ hist.enrichErr[r] = "none"
     /\ \E i \in 1..Len(req[r].messages) : req[r].messages[i].role = "user")
    => LET i == LastUser(req[r].messages)
       IN  sent[r][1].messages[i].content # req[r].messages[i].content

(* ----------------------------- web search ----------------------------- *)
\* C16 (web-search gating): the flag is on when the process starts, and the
\* web-search provider is called for a request only when the request is a
\* chat request and the flag is on at that moment.
C16_WebSearchGating ==
  /\ DDGS_SEARCH_ENABLED = TRUE
  /\ [][ \A r \in Requests :
           (hist'.web[r] \in {"ok", "raised"} /\ hist.web[r] \notin {"ok", "raised"})
           => (req[r].endpoint = "chat" /\ DDGS_SEARCH_ENABLED) ]_vars

\* one chat request was augmented without a web search, the flag being off,
\* and another with one
C16_Witness ==
  \E r1, r2 \in Requests : hist.web[r1] = "skipped" /\ hist.web[r2] = "ok"

\* C17 (web snippets in the prompt): when a chat request's web search has
\* succeeded, the text posted holds the rendered entry of every result.
C17_WebSnippetsInPrompt ==
  \A r \in Requests :
    (hist.web[r] = "ok" /\ sent[r] # None)
    => LET text == SentText(sent[r][1])
           snippets == web_info(WebResults)
       IN  \A k \in 1..Len(snippets) : \E i \in 1..Len(text) : text[i] = snippets[k]

(* -------------------------- malformed requests ------------------------ *)
\* the request's body is not what its endpoint takes
Malformed(r) ==
  \/ req[r].endpoint = "malformed"
  \/ req[r].endpoint = "debug" /\ req[r].prompt # <<"{", "}">>

\* C18 (malformed requests rejected): a malformed request is answered with a
\* status of the client-error class, and nothing is posted to the backend
\* for it, no web search made.
C18_MalformedRejected ==
  \A r \in Requests :
    (pc[r] = "done" /\ Malformed(r))
    => /\ resp[r][1].status \in 400..499
       /\ sent[r] = None /\ backend[r] = None
       /\ hist.web[r] = "none"

(* ------------------------- non-streaming relay ------------------------ *)
\* the tokens of a JSON document, without the white space between them
JsonTokens(body) == SelectSeq(body, LAMBDA tok : tok \notin {" ", "\n", "\t", "\r"})

InitHash ==
  /\ ProgramInit
  /\ arg \in {<<[tree |-> t, listings |-> <<l1, l2>>]>> :
                t \in [FileSet -> Contents], l1 \in Listings, l2 \in Listings}
  /\ ret = <<>>

\* hash_code_dir is called on the tree (line 137)
call_hash_code_dir ==
  /\ arg # None /\ Len(ret) < 2
  /\ ret' = Append(ret, hash_listing(arg[1].tree, arg[1].listings[Len(ret) + 1]))
  /\ UNCHANGED <<serverVars, arg>>

SpecHash == InitHash /\ [][call_hash_code_dir]_vars

\* C20 (fingerprint stability): two fingerprints of the same files with the
\* same contents are equal, whatever the order in which the directory listed
\* the files at each call.
C20_FingerprintStability == Len(ret) = 2 => ret[1] = ret[2]

(* ----------------------- fingerprint of an edit ----------------------- *)
\* contents of a file: 1 to MaxBytes bytes
ByteSeqs == UNION {[1..n -> {"X", "Y"}] : n \in 1..MaxBytes}

\* a tree, the order the directory lists it in, the files that cannot be
\* read, and a change of one byte: byte `at` of file `file` becomes `byte`
HashEditInputs ==
  {<<[tree |-> t, listing |-> l, unreadable |-> u, file |-> f, at |-> i, byte |-> b]>> :
     t \in [FileSet -> ByteSeqs], l \in Listings, u \in SUBSET FileSet,
     f \in FileSet, i \in 1..MaxBytes, b \in {"X", "Y"}}

\* the tree after the change
EditedTree(a) == [a.tree EXCEPT ![a.file] = [@ EXCEPT ![a.at] = a.byte]]

InitHashEdit ==
  /\ ProgramInit
  /\ arg \in {a \in HashEditInputs : a[1].at <= Len(a[1].tree[a[1].file])
                                      /\ a[1].byte # a[1].tree[a[1].file][a[1].at]}
  /\ ret = <<>>

\* hash_code_dir is called on the tree (line 137), before the change
hash_before_edit ==
  /\ arg # None /\ ret = <<>>
  /\ ret' = <<hash_readable(arg[1].tree, arg[1].listing, arg[1].unreadable)>>
  /\ UNCHANGED <<serverVars, arg>>

\* hash_code_dir is called again, after the change
hash_after_edit ==
  /\ arg # None /\ Len(ret) = 1
  /\ ret' = Append(ret, hash_readable(EditedTree(arg[1]), arg[1].listing, arg[1].unreadable))
  /\ UNCHANGED <<serverVars, arg>>

NextHashEdit == hash_before_edit \/ hash_after_edit

SpecHashEdit == InitHashEdit /\ [][NextHashEdit]_vars

\* C21 (fingerprint sensitivity): a change of one byte of a file that is
\* read changes the fingerprint.
C21_FingerprintSensitivity ==
  (Len(ret) = 2 /\ arg[1].file \notin arg[1].unreadable) => ret[1] # ret[2]

\* the fingerprint has been taken before and after a change of the file the
\* directory lists last, the other file being read too
C21_Witness ==
  /\ Len(ret) = 2 /\ arg[1].unreadable = {}
  /\ arg[1].file = arg[1].listing[Len(arg[1].listing)]

\* C22 (best-effort fingerprint): with files that cannot be read the
\* fingerprint is still computed, it is the fingerprint of the tree without
\* those files, and a change in such a file does not change it.
C22_BestEffortFingerprint ==
  /\ Len(ret) >= 1 =>
       LET kept == SelectSeq(arg[1].listing, LAMBDA f : f \notin arg[1].unreadable)
       IN  ret[1] = Md5(Concat([i \in 1..Len(kept) |-> arg[1].tree[kept[i]]]))
  /\ (Len(ret) = 2 /\ arg[1].file \in arg[1].unreadable) => ret[1] = ret[2]

\* the fingerprint has been taken before and after a change in a file that
\* cannot be read, another file being read
C22_Witness ==
  /\ Len(ret) = 2
  /\ arg[1].file \in arg[1].unreadable /\ arg[1].unreadable # FileSet

(* --------------------------- units of the index ----------------------- *)
\* C23 (no empty units): when an index is installed, neither of its
\* collections holds a unit whose text is empty or whitespace only.
C23_NoEmptyUnits ==
  vectorstore # None =>
    \A mode \in Modes : \A u \in store[vectorstore[1][mode].name] : Strip(u.text) # <<>>

(* ------------------------- calls of a request ------------------------- *)
\* the similarity searches request r has made
SearchesOf(r) ==
  {i \in 1..Len(hist.calls[r]) : hist.calls[r][i].op = "similarity_search"}

\* C24 (mode selects collection and breadth): a chat request searches the
\* chat collection only, with k = 2; a generate request searches the generate
\* collection only, with k = 8; no more than k extracts are rendered.
C24_ModeSelectsCollection ==
  \A r \in Requests :
    /\ Cardinality(SearchesOf(r)) <= 1
    /\ \A i \in SearchesOf(r) :
         LET c == hist.calls[r][i]
         IN  /\ req[r].endpoint \in Modes
             /\ req[r].endpoint = "chat" => (c.collection = "chat_context" /\ c.k = 2)
             /\ req[r].endpoint = "generate" => (c.collection = "code_completion" /\ c.k = 8)
             /\ c.rendered <= c.k

\* a chat request has searched a chat collection that holds more units than
\* its k, and extracts were rendered
C24_Witness ==
  \E r \in Requests :
    /\ req[r].endpoint = "chat"
    /\ Cardinality(store["chat_context"]) > 2
    /\ \E i \in SearchesOf(r) : hist.calls[r][i].rendered >= 1

SplitTexts == UNION {[1..n -> {"X", " "}] : n \in 0..MaxText}

InitSplit ==
  /\ ProgramInit
  /\ arg \in {<<[tree |-> t, size |-> z]>> :
                t \in [FileSet -> SplitTexts], z \in CHUNCK_SIZE..MaxSize}
  /\ ret = <<>>

\* lines 155-187 of a build pass: the files are loaded and cleaned, the
\* documents split, the empty splits dropped
load_and_split ==
  /\ arg # None /\ Len(ret) < 2
  /\ \E order \in Listings :
       ret' = Append(ret, NonEmptySplits(split_documents(LoadDocs(arg[1].tree, order),
                                                         arg[1].size, CHUNCK_OVERLAP)))
  /\ UNCHANGED <<serverVars, arg>>

SpecSplit == InitSplit /\ [][load_and_split]_vars

\* the chunks of the first pass that come from file f
ChunksOf(f) == SelectSeq(ret[1], LAMBDA c : c.source = f)

\* C26 (overlap coverage): of a cleaned document longer than the chunk size,
\* every character position lies in some chunk, and each chunk starts no more
\* than (size - overlap) characters after the one before it.
C26_OverlapCoverage ==
  Len(ret) >= 1 =>
    \A f \in FileSet :
      LET doc == clean_code_content(arg[1].tree[f])
          chunks == ChunksOf(f)
      IN  Len(doc) > arg[1].size =>
            /\ \A p \in 1..Len(doc) :
                 \E i \in 1..Len(chunks) :
                   /\ chunks[i].start <= p
                   /\ p <= chunks[i].start + Len(chunks[i].page_content) - 1
            /\ \A i \in 1..(Len(chunks) - 1) :
                 chunks[i + 1].start - chunks[i].start <= arg[1].size - CHUNCK_OVERLAP

\* C27 (chunk determinism): two passes over one tree, with one configuration,
\* give the same chunks in the same order.
C27_ChunkDeterminism ==
  Len(ret) = 2 =>
    /\ Len(ret[1]) = Len(ret[2])
    /\ \A i \in 1..Len(ret[1]) : ret[1][i] = ret[2][i]

(* ---------------------------- cancellation ---------------------------- *)
\* the frame the backend writes in the runs with disconnecting clients
CancelFrames == { <<"{\"response\":\"a\"}", "\n">> }

\* the conversations that chat_endpoint posts as they are
Unaugmented == {m \in Conversations : m[Len(m)].role # "user"}

\* Streaming requests whose clients may drop their connections, over a
\* source tree that stays as it is: generate requests, and chat requests
\* that are posted without augmentation (the relay of the two handlers is
\* the same code, lines 463-481 and 537-555).
NextCancel ==
  \/ startup_event
  \/ \E c \in Callers : bv_hash(c)
  \/ \E c \in Callers : bv_build(c)
  \/ \E r \in Requests : generate_endpoint(r, TRUE)
  \/ \E r \in Requests, m \in Unaugmented : chat_endpoint(r, m, TRUE)
  \/ \E r \in Requests : augment(r)
  \/ \E r \in Requests, f \in CancelFrames : backend_frame(r, f)
  \/ \E r \in Requests, a \in BackendAnswers : relay(r, a)
  \/ \E r \in Requests : stream_emit(r)
  \/ \E r \in Requests : stream_end(r)
  \/ \E r \in Requests : client_disconnect(r)
  \/ \E r \in Requests : stream_cancel(r)

\* the caller that holds the event loop runs its next step
HandlerStep ==
  \/ \E c \in Callers : bv_hash(c) \/ bv_build(c)
  \/ \E r \in Requests : augment(r)

\* A handler that has been entered runs on: its freshness check, build pass
\* and augmentation return or raise.  The post returns: the backend ends its
\* answer or QUERY_TIMEOUT expires (lines 452-456, 525-529).  The event loop
\* runs the cancellation of a response whose client is gone.
SpecCancel ==
  /\ Init /\ [][NextCancel]_vars
  /\ WF_vars(HandlerStep)
  /\ WF_vars(\E r \in Requests, a \in BackendAnswers : relay(r, a))
  /\ WF_vars(\E r \in Requests : stream_cancel(r))

\* request r holds a connection to the backend (its post is awaited) or a
\* relay generator
Holds(r) == pc[r] \in {"post", "streaming"}

\* what the server keeps of request r and what r's client has received
StateOf(r) == <<pc[r], req[r], sent[r], backend[r], resp[r], wire[r], out[r]>>

\* C28 (cancellation): once the client of a streamed request has dropped its
\* connection, the request eventually holds neither a relay generator nor a
\* backend connection; a request is cancelled only when its own client is
\* gone, and the cancellation changes nothing of any other request.
C28_Cancellation ==
  /\ \A r \in Requests : hist.gone[r] ~> ~Holds(r)
  /\ [][ \A r \in Requests :
           (pc'[r] = "cancelled" /\ pc[r] # "cancelled")
           => /\ hist.gone[r]
              /\ \A o \in Requests \ {r} : StateOf(o)' = StateOf(o) ]_vars

\* a request has been cancelled after its client dropped the connection,
\* while another request's relay went on to its end
C28_Witness ==
  \E r, o \in Requests :
    /\ r # o
    /\ pc[r] = "cancelled"
    /\ ~hist.gone[o] /\ req[o].stream /\ pc[o] = "done" /\ out[o] # <<>>

(* ----------------------- fingerprint and index ------------------------ *)
\* the units of collection n that the pass of the installed index stored
InstalledUnits(n) == {u \in store[n] : u.build = vectorstore[1].chat.build}

\* the installed index is what a pass over the tree t stores
BuiltFrom(t) ==
  \E order \in Listings :
    \E docs \in {LoadDocs(t, order)} :
    \E splits \in {NonEmptySplits(SplitDocs(docs))} :
      /\ InstalledUnits("chat_context") = UnitsOf(docs, vectorstore[1].chat.build)
      /\ InstalledUnits("code_completion") = UnitsOf(splits, vectorstore[1].chat.build)

\* C29 (fingerprint/collections coherence): whenever an index is installed
\* and no pass is running, the stored fingerprint is the fingerprint of a
\* tree the installed collections were built from; and when the freshness
\* check of a request finds the fingerprints equal, the installed collections
\* are built from the files as they are.
C29_FingerprintCoherence ==
  [][ /\ (vectorstore' # None /\ loop' = Idle)
         => \E t \in [FileSet -> Contents] :
              hash_code_dir(t) = code_hash' /\ BuiltFrom(t)'
      /\ \A r \in Requests :
           (pc[r] = "bv_hash" /\ pc'[r] = "augment" /\ nbuild' = nbuild)
           => BuiltFrom(files)' ]_vars

(* ------------------------ order within a request ---------------------- *)
\* the place of a call in the order of a request
StepOf(op) ==
  IF op = "build_vectorstore" THEN 1
  ELSE IF op = "similarity_search" THEN 2
  ELSE IF op = "perform_web_search" THEN 3
  ELSE IF op = "build_enhanced_prompt" THEN 4
  ELSE 5

\* C30 (per-request ordering): the calls of one request come in the order
\* freshness check, retrieval, web search (chat only), prompt construction,
\* post to the backend; a request that augments posts only once its prompt
\* is constructed or its augmentation has raised; every retrieval comes after
\* a freshness check of the same request.
C30_PerRequestOrdering ==
  \A r \in Requests :
    LET cs == hist.calls[r]
    IN  /\ \A i, j \in 1..Len(cs) : i < j => StepOf(cs[i].op) < StepOf(cs[j].op)
        /\ \A i \in 1..Len(cs) :
             /\ cs[i].op = "perform_web_search" => req[r].endpoint = "chat"
             /\ cs[i].op = "similarity_search"
                  => \E j \in 1..(i - 1) : cs[j].op = "build_vectorstore"
             /\ (cs[i].op = "post" /\ i > 1)
                  => \/ \E j \in 1..(i - 1) : cs[j].op = "build_enhanced_prompt"
                     \/ hist.enrichErr[r] # "none"
        /\ sent[r] # None => (cs # <<>> /\ cs[Len(cs)].op = "post")

\* a chat request has made all five calls and a generate request its four
C30_Witness ==
  \E r, o \in Requests :
    /\ req[r].endpoint = "chat" /\ Len(hist.calls[r]) = 5 /\ sent[r] # None
    /\ req[o].endpoint = "generate" /\ Len(hist.calls[o]) = 4 /\ sent[o] # None

(* ------------------------- event-frame streaming ---------------------- *)
\* lines response.aiter_lines() yields (without their line ends): blank
\* lines, JSON objects of the two shapes the generator reads, a JSON object
\* whose "message" is a string, a JSON number, a text that is no JSON
L_EMPTY == ""
L_SPACE == " "
L_MESSAGE == "{\"message\":{\"content\":\"a\"}}"
L_CONTENT == "{\"content\":\"b\",\"done\":true}"
L_MESSAGE_STR == "{\"message\":\"a\"}"
L_NUMBER == "1"
L_TRUNCATED == "{\"message\":"

BackendLines ==
  {L_EMPTY, L_SPACE, L_MESSAGE, L_CONTENT, L_MESSAGE_STR, L_NUMBER, L_TRUNCATED}

\* line.strip() (line 408)
StripLine(line) == IF line \in {L_EMPTY, L_SPACE} THEN "" ELSE line

\* json.loads(line) (line 410): the type of the value, what its "message"
\* member is, its "content" and "done" members; "invalid" stands for the
\* JSONDecodeError
json_loads(line) ==
  CASE line = L_MESSAGE     -> [type |-> "object", message |-> "object",
                                message_content |-> "a", content |-> "", done |-> FALSE]
    [] line = L_CONTENT     -> [type |-> "object", message |-> "absent",
                                message_content |-> "", content |-> "b", done |-> TRUE]
    [] line = L_MESSAGE_STR -> [type |-> "object", message |-> "string",
                                message_content |-> "", content |-> "", done |-> FALSE]
    [] line = L_NUMBER      -> [type |-> "number", message |-> "absent",
                                message_content |-> "", content |-> "", done |-> FALSE]
    [] OTHER                -> [type |-> "invalid", message |-> "absent",
                                message_content |-> "", content |-> "", done |-> FALSE]

\* the frames the generator yields
DataFrame(content, done) == [event |-> "data", content |-> content, done |-> done]
ErrorFrame == [event |-> "error", content |-> "Invalid JSON chunk", done |-> FALSE]
EndFrame == [event |-> "end", content |-> "Stream completed", done |-> FALSE]

\* lines 409-431 for one non-blank line: the frame yielded, or the exception
\* that leaves the generator.  Only JSONDecodeError is caught (line 430):
\* `"message" in chunk` raises TypeError for a number, and
\* chunk.get("message", {}).get raises AttributeError when the member is a
\* string.
frame_of_line(line) ==
  LET chunk == json_loads(line)
  IN  IF chunk.type = "invalid" THEN [raised |-> "", frame |-> <<ErrorFrame>>]
      ELSE IF chunk.type # "object" THEN [raised |-> "TypeError", frame |-> <<>>]
      ELSE IF chunk.message = "absent"
           THEN [raised |-> "", frame |-> <<DataFrame(chunk.content, chunk.done)>>]
      ELSE IF chunk.message # "object" THEN [raised |-> "AttributeError", frame |-> <<>>]
      ELSE [raised |-> "", frame |-> <<DataFrame(chunk.message_content, chunk.done)>>]

LineSeqs == UNION {[1..n -> BackendLines] : n \in 0..MaxLines}

\* _stream_ollama_response is started on a response; ret is the generator:
\* the number of lines it has consumed, the frames it has yielded, and
\* whether it runs, has returned, or was left by an exception
InitEvents ==
  /\ ProgramInit
  /\ arg \in {<<lines>> : lines \in LineSeqs}
  /\ ret = <<[at |-> 0, frames |-> <<>>, state |-> "running", raised |-> ""]>>

\* one turn of `async for line in response.aiter_lines()` (lines 407-431)
stream_line ==
  /\ arg # None /\ ret # None
  /\ ret[1].state = "running" /\ ret[1].at < Len(arg[1])
  /\ LET line == arg[1][ret[1].at + 1]
         res == frame_of_line(line)
     IN  ret' = IF StripLine(line) = ""
                THEN <<[ret[1] EXCEPT !.at = @ + 1]>>
                ELSE IF res.raised # ""
                THEN <<[ret[1] EXCEPT !.at = @ + 1, !.state = "raised",
                                      !.raised = res.raised]>>
                ELSE <<[ret[1] EXCEPT !.at = @ + 1, !.frames = @ \o res.frame]>>
  /\ UNCHANGED <<serverVars, arg>>

\* the lines are exhausted: the end marker is yielded (line 433) and the
\* generator returns
stream_finish ==
  /\ arg # None /\ ret # None
  /\ ret[1].state = "running" /\ ret[1].at = Len(arg[1])
  /\ ret' = <<[ret[1] EXCEPT !.frames = Append(@, EndFrame), !.state = "returned"]>>
  /\ UNCHANGED <<serverVars, arg>>

NextEvents == stream_line \/ stream_finish

SpecEvents == InitEvents /\ [][NextEvents]_vars

\* a line that is a JSON document
ValidJson(line) == line \in {L_MESSAGE, L_CONTENT, L_MESSAGE_STR, L_NUMBER}

\* the non-blank lines, in order
NonBlank(lines) == SelectSeq(lines, LAMBDA l : l \notin {L_EMPTY, L_SPACE})

\* C31 (event-frame streaming): when the generator has ended, it has yielded
\* one frame per non-blank line, in order, a data frame for a line that is
\* valid JSON and an error event for one that is not, and then one end
\* marker, as the last frame.
C31_EventFrames ==
  (ret # None /\ ret[1].state # "running") =>
    LET nb == NonBlank(arg[1])
        frames == ret[1].frames
    IN  /\ Len(frames) = Len(nb) + 1
        /\ \A i \in 1..Len(nb) :
             frames[i].event = IF ValidJson(nb[i]) THEN "data" ELSE "error"
        /\ frames[Len(frames)] = EndFrame

(* ------------------------- request completion ------------------------- *)
\* Requests of both endpoints, streaming or not, over a source tree that
\* stays as it is, with every backend answer.
NextComplete ==
  \/ startup_event
  \/ \E c \in Callers : bv_hash(c)
  \/ \E c \in Callers : bv_build(c)
  \/ \E r \in Requests, st \in BOOLEAN : generate_endpoint(r, st)
  \/ \E r \in Requests, m \in Conversations, st \in BOOLEAN : chat_endpoint(r, m, st)
  \/ \E r \in Requests : augment(r)
  \/ \E r \in Requests, f \in CancelFrames : backend_frame(r, f)
  \/ \E r \in Requests, a \in BackendAnswers : relay(r, a)
  \/ \E r \in Requests : stream_emit(r)
  \/ \E r \in Requests : stream_end(r)

\* the server writes the next chunk of a streamed response, or ends it
RelayStep == \E r \in Requests : stream_emit(r) \/ stream_end(r)

\* A handler that has been entered runs on (its freshness check, build pass
\* and augmentation return or raise).  The post returns: the backend answers,
\* or the timeout of lines 455 and 528 expires, which is the answer
\* "unreachable".  The event loop runs the generator of a streamed response.
SpecComplete ==
  /\ Init /\ [][NextComplete]_vars
  /\ WF_vars(HandlerStep)
  /\ WF_vars(\E r \in Requests, a \in BackendAnswers : relay(r, a))
  /\ WF_vars(RelayStep)

\* request r has been accepted by /api/generate or /api/chat
Accepted(r) == req[r].endpoint \in {"generate", "chat"}

\* the response reports that the backend could not be reached
ConnectivityError(rsp) ==
  /\ rsp.kind = "error"
  /\ \E i \in 1..Len(rsp.body) :
       rsp.body[i] \in {"Erreur de connexion à Ollama: ", "Ollama non disponible: "}

\* C32 (request completion): every accepted request eventually ends; when it
\* has ended it has one outcome, the backend's answer relayed or an error
\* response, which once given is never replaced; a backend that does not
\* answer gives a connectivity error.
C32_RequestCompletion ==
  /\ \A r \in Requests : Accepted(r) ~> (pc[r] = "done")
  /\ [](\A r \in Requests :
          (Accepted(r) /\ pc[r] = "done") =>
            /\ resp[r] # None
            /\ resp[r][1].kind \in {"json", "stream"} <=> Cause(r) = "ok"
            /\ Cause(r) = "unreachable" => ConnectivityError(resp[r][1]))
  /\ [][ \A r \in Requests : resp[r] # None => resp'[r] = resp[r] ]_vars

\* a request has ended with a connectivity error because its post got no
\* answer, another with the backend's streamed answer relayed
C32_Witness ==
  \E r, o \in Requests :
    /\ pc[r] = "done" /\ Cause(r) = "unreachable" /\ ConnectivityError(resp[r][1])
    /\ pc[o] = "done" /\ req[o].stream /\ resp[o][1].kind = "stream" /\ out[o] # <<>>

(* ----------------------- error or stream, not both -------------------- *)
\* C33 (error-or-stream exclusivity): the client of a streaming request gets
\* stream bytes only after the backend's answer has been checked to be a
\* success; it gets an error response and no stream bytes, or stream bytes and
\* no error response, and the response it has been given is not replaced by
\* an error once bytes have been delivered.
C33_ErrorOrStream ==
  /\ [](\A r \in Requests :
          req[r].stream =>
            /\ out[r] # <<>> =>
                 /\ backend[r] # None /\ backend[r][1].kind = "ok"
                 /\ resp[r] # None /\ resp[r][1].kind = "stream"
            /\ (resp[r] # None /\ resp[r][1].kind = "error") => out[r] = <<>>)
  /\ [][ \A r \in Requests : out[r] # <<>> => resp'[r] = resp[r] ]_vars

\* one streaming request was refused by the backend and answered with an
\* error and no byte; another got the bytes of the backend's stream
C33_Witness ==
  \E r, o \in Requests :
    /\ req[r].stream /\ pc[r] = "done" /\ Cause(r) \in {"status", "unreachable"}
    /\ resp[r][1].kind = "error" /\ out[r] = <<>>
    /\ req[o].stream /\ pc[o] = "done" /\ resp[o][1].kind = "stream" /\ out[o] # <<>>

(* ------------------------ chat frame condition ------------------------ *)
\* conversations of every shape lines 491-493 tell apart: none at all, a
\* last message that is the user's (alone, or after earlier messages), a last
\* message that is not
ChatConversations ==
  Conversations \cup
  { <<>>,
    <<[role |-> "user", content |-> <<"p">>],
      [role |-> "assistant", content |-> <<"a">>],
      [role |-> "user", content |-> Question]>> }

\* /api/chat requests, not streamed, over a source tree that stays as it is
NextChat ==
  \/ startup_event
  \/ \E c \in Callers : bv_hash(c)
  \/ \E c \in Callers : bv_build(c)
  \/ \E r \in Requests, m \in ChatConversations : chat_endpoint(r, m, FALSE)
  \/ \E r \in Requests : augment(r)
  \/ \E r \in Requests, a \in BackendAnswers : relay(r, a)
  \/ \E e \in BOOLEAN : enable_web_search(e)

SpecChat == Init /\ [][NextChat]_vars

\* the condition of line 493
LastIsUser(messages) == messages # <<>> /\ messages[Len(messages)].role = "user"

\* C34 (chat frame condition): the payload posted for a chat request has the
\* messages of the request, each but the last as it was received, at its
\* place; when the conversation is empty or its last message is not the
\* user's, the messages are posted as received and the request makes no
\* freshness check, no retrieval and no web search.
C34_ChatFrame ==
  \A r \in Requests :
    req[r].endpoint = "chat" =>
      /\ sent[r] # None =>
           /\ Len(sent[r][1].messages) = Len(req[r].messages)
           /\ \A i \in 1..(Len(req[r].messages) - 1) :
                sent[r][1].messages[i] = req[r].messages[i]
      /\ ~LastIsUser(req[r].messages) =>
           /\ sent[r] # None /\ sent[r][1].messages = req[r].messages
           /\ \A i \in 1..Len(hist.calls[r]) : hist.calls[r][i].op = "post"
           /\ hist.web[r] = "none" /\ hist.enrichErr[r] = "none"

\* a conversation of three messages has been posted with its last message
\* augmented, an empty conversation has been posted as it was
C34_Witness ==
  \E r, o \in Requests :
    /\ req[r].endpoint = "chat" /\ Len(req[r].messages) = 3 /\ sent[r] # None
    /\ sent[r][1].messages[3].content # req[r].messages[3].content
    /\ req[o].endpoint = "chat" /\ req[o].messages = <<>> /\ sent[o] # None

(* --------------------------- excerpt labels --------------------------- *)
\* documents as the loader names them: the source is the path of the file
PathDocs ==
  {[source |-> f, page_content |-> t] :
     f \in {"/code/a.go", "/code/lib/a.go", "/code/lib/b.go"}, t \in {<<"A">>, <<"B">>, <<"C">>}}

InitLabels ==
  /\ ProgramInit
  /\ arg \in {<<docs>> : docs \in UNION {[1..n -> PathDocs] : n \in 0..MaxDocs}}
  /\ ret = None

SpecLabels == InitLabels /\ [][call_format_context]_vars

\* the labels a header can be made of
Labels == {"a.go", "b.go", "/code/a.go", "/code/lib/a.go", "/code/lib/b.go"} \X (1..(MaxDocs + 1))

\* the labels of the headers of a rendered context, in order
LabelsOf(rendered) ==
  LET headers == SelectSeq(rendered, LAMBDA tok : \E l \in Labels : tok = Header(l[1], l[2]))
  IN  [i \in 1..Len(headers) |-> CHOOSE l \in Labels : headers[i] = Header(l[1], l[2])]

\* C35 (excerpt labels): each rendered excerpt is labelled with the base name
\* of its source and with the position its chunk had in the retrieved
\* sequence; the positions are those of the first occurrences, so they
\* increase strictly and skip the positions of the duplicates.
C35_ExcerptLabels ==
  ret # None =>
    LET docs == arg[1]
        labels == LabelsOf(ret[1])
        kept == FirstOccurrences(docs)
    IN  /\ Len(labels) = Len(kept)
        /\ \A n \in 1..Len(labels) :
             /\ labels[n][2] = kept[n]
             /\ labels[n][1] = basename(docs[kept[n]].source)
        /\ \A n \in 1..(Len(labels) - 1) : labels[n][2] < labels[n + 1][2]

\* [A, B, A, C] has been rendered with the labels 1, 2, 4
C35_Witness ==
  /\ ret # None
  /\ [i \in 1..Len(arg[1]) |-> arg[1][i].page_content] = << <<"A">>, <<"B">>, <<"A">>, <<"C">> >>
  /\ arg[1][1].source = "/code/lib/a.go"
  /\ [n \in 1..Len(LabelsOf(ret[1])) |-> LabelsOf(ret[1])[n][2]] = <<1, 2, 4>>
  /\ LabelsOf(ret[1])[1][1] = "a.go"

(* ------------------------- an empty source tree ----------------------- *)
\* contents of a file that gives no chunk: no byte at all, or white space
BlankContents == {<<>>, <<" ">>}

\* the server is started over a tree of blank files
InitEmpty ==
  /\ \E tree \in [FileSet -> BlankContents] : ServerInit(tree)
  /\ arg = None /\ ret = None

\* The index manager over a tree that stays blank: blank files are rewritten
\* as blank files, the process restarts, the startup hook and the requests of
\* both endpoints run their freshness checks.  (No pass returns, so no
\* request reaches the retrieval.)
NextEmpty ==
  \/ \E f \in FileSet, c \in BlankContents : ModifyFile(f, c)
  \/ Restart
  \/ startup_event
  \/ \E c \in Callers : bv_hash(c)
  \/ \E c \in Callers : bv_build(c)
  \/ \E r \in Requests : generate_endpoint(r, FALSE)
  \/ \E r \in Requests, m \in Conversations : chat_endpoint(r, m, FALSE)
  \/ \E r \in Requests, a \in BackendAnswers : relay(r, a)

SpecEmpty == InitEmpty /\ [][NextEmpty]_vars

\* caller c leaves the comparison of lines 137-141 (the process going on)
ChecksFreshness(c) == pc[c] = "bv_hash" /\ pc'[c] # "bv_hash" /\ nrestart' = nrestart

\* C36 (rebuild over an empty index input): over a source tree that gives no
\* non-empty chunk no index is ever installed and no pass ends well; every
\* freshness check starts a build pass again, whether or not the fingerprint
\* has changed; the failure of the startup hook's pass is not caught: the
\* server does not come up.
C36_EmptyIndexInput ==
  /\ [](/\ vectorstore = None
        /\ hist.lastBuild # "ok"
        /\ \A c \in Callers : pc[c] # "augment"
        /\ pc[Startup] = "done" => phase = "failed")
  /\ [][ \A c \in Callers :
           ChecksFreshness(c) => (pc'[c] = "bv_build" /\ nbuild' = nbuild + 1) ]_vars

\* over an unchanged blank tree a request's pass has failed, and after it
\* the startup hook's pass of the restarted process, which is then down
C36_Witness ==
  /\ nedit = 0 /\ nrestart = 1 /\ nbuild = 2
  /\ vectorstore = None /\ code_hash = hash_code_dir(files)
  /\ pc[Startup] = "done" /\ phase = "failed" /\ hist.lastBuild = "raised"

(* ------------------- fingerprint and file boundaries ------------------ *)
\* names of the files of a tree, and their contents: 0 to MaxBytes bytes
TreeNames == {"a.go", "b.go", "c.go"}
FileBytes == UNION {[1..n -> {"X", "Y"}] : n \in 0..MaxBytes}

\* the enumerations glob can give of up to n files: no name twice
Enumerations(n) ==
  UNION {{l \in [1..k -> TreeNames] : \A i, j \in 1..k : i # j => l[i] # l[j]} : k \in 0..n}

\* a tree: the files in the order glob enumerates them, and their bytes (a
\* name that is not enumerated has none)
Trees ==
  UNION {{[listing |-> l, fs |-> fs] :
            fs \in {g \in [TreeNames -> FileBytes] :
                      \A n \in TreeNames : (\A i \in 1..Len(l) : l[i] # n) => g[n] = <<>>}} :
         l \in Enumerations(2)}

Without(seq, i) == [j \in 1..(Len(seq) - 1) |-> IF j < i THEN seq[j] ELSE seq[j + 1]]
InsertAt(seq, i, x) ==
  [j \in 1..(Len(seq) + 1) |-> IF j < i THEN seq[j] ELSE IF j = i THEN x ELSE seq[j - 1]]
LastBytes(b, k) == SubSeq(b, Len(b) - k + 1, Len(b))
FirstBytes(b, k) == SubSeq(b, 1, k)

\* what can be done to a tree between two fingerprints: the file at place i
\* is renamed (it keeps its place in the enumeration), an empty file is
\* added or deleted, the last k bytes of a file are moved to the head of the
\* next one, a file is rewritten
Renamed(t, i, n) ==
  [listing |-> [t.listing EXCEPT ![i] = n],
   fs |-> [t.fs EXCEPT ![n] = t.fs[t.listing[i]], ![t.listing[i]] = <<>>]]
EmptyAdded(t, i, n) == [listing |-> InsertAt(t.listing, i, n), fs |-> t.fs]
Deleted(t, i) ==
  [listing |-> Without(t.listing, i), fs |-> [t.fs EXCEPT ![t.listing[i]] = <<>>]]
BytesMoved(t, i, k) ==
  LET a == t.listing[i]
      b == t.listing[i + 1]
  IN  [listing |-> t.listing,
       fs |-> [t.fs EXCEPT ![a] = FirstBytes(t.fs[a], Len(t.fs[a]) - k),
                           ![b] = LastBytes(t.fs[a], k) \o t.fs[b]]]
Rewritten(t, i, c) == [listing |-> t.listing, fs |-> [t.fs EXCEPT ![t.listing[i]] = c]]

Unlisted(t) == {n \in TreeNames : \A i \in 1..Len(t.listing) : t.listing[i] # n}

Changes(t) ==
  {Renamed(t, i, n) : i \in 1..Len(t.listing), n \in Unlisted(t)}
  \cup {EmptyAdded(t, i, n) : i \in 1..(Len(t.listing) + 1), n \in Unlisted(t)}
  \cup {Deleted(t, i) : i \in {j \in 1..Len(t.listing) : t.fs[t.listing[j]] = <<>>}}
  \cup UNION {{BytesMoved(t, i, k) : k \in 1..Len(t.fs[t.listing[i]])} :
                i \in 1..(Len(t.listing) - 1)}
  \cup {Rewritten(t, i, c) : i \in 1..Len(t.listing), c \in FileBytes}

\* arg: the tree as it is at each call of hash_code_dir; ret: the digests
InitConcat ==
  /\ ProgramInit
  /\ arg \in {<<t>> : t \in Trees}
  /\ ret = <<>>

\* hash_code_dir is called on the tree as it is now (line 138)
hash_tree ==
  /\ arg # None /\ Len(ret) < Len(arg)
  /\ ret' = Append(ret, hash_listing(arg[Len(arg)].fs, arg[Len(arg)].listing))
  /\ UNCHANGED <<serverVars, arg>>

\* the tree is changed after its first fingerprint has been taken
change_tree ==
  /\ arg # None /\ Len(arg) = 1 /\ Len(ret) = 1
  /\ \E t \in Changes(arg[1]) : t # arg[1] /\ arg' = Append(arg, t)
  /\ UNCHANGED <<serverVars, ret>>

NextConcat == hash_tree \/ change_tree

SpecConcat == InitConcat /\ [][NextConcat]_vars

\* the bytes of the files of a tree, in enumeration order
BytesOf(t) == Concat([i \in 1..Len(t.listing) |-> t.fs[t.listing[i]]])

\* C37 (the fingerprint is of the concatenation): two trees whose files, in
\* enumeration order, concatenate to the same bytes have the same
\* fingerprint, and with an index installed the second freshness check starts
\* no rebuild.
C37_ConcatenationOnly ==
  (arg # None /\ Len(ret) = 2 /\ BytesOf(arg[1]) = BytesOf(arg[2])) =>
    /\ ret[1] = ret[2]
    /\ ~NeedsRebuild(<<"index">>, ret[2], ret[1])

\* two fingerprints have been taken of a tree of two files, before and after
\* a byte was moved from the end of the first file to the head of the second
C37_Witness ==
  /\ arg # None /\ Len(ret) = 2 /\ ret[1] = ret[2]
  /\ Len(arg[1].listing) = 2 /\ arg[2].listing = arg[1].listing
  /\ arg[1].fs[arg[1].listing[1]] = <<"X", "Y">>
  /\ arg[2].fs[arg[1].listing[1]] = <<"X">>
  /\ arg[2].fs[arg[1].listing[2]] = <<"Y">> \o arg[1].fs[arg[1].listing[2]]

(* --------------------------- model override --------------------------- *)
\* Requests of both endpoints that name any model and send any options,
\* over a source tree that stays as it is, up to their post.
NextPayload ==
  \/ startup_event
  \/ \E c \in Callers : bv_hash(c)
  \/ \E c \in Callers : bv_build(c)
  \/ \E r \in Requests, st \in BOOLEAN, mo \in ClientModels, op \in ClientOptions :
       generate_request(r, st, mo, op)
  \/ \E r \in Requests, m \in Conversations, st \in BOOLEAN, mo \in ClientModels,
        op \in ClientOptions :
       chat_request(r, m, st, mo, op)
  \/ \E r \in Requests : augment(r)

SpecPayload == Init /\ [][NextPayload]_vars

\* C38 (model override): a payload posted to the backend names the model the
\* server is configured with for its endpoint, whatever model the request
\* named, and carries the request's stream flag and its options, an empty
\* object when the request sent none.
C38_ModelOverride ==
  \A r \in Requests :
    sent[r] # None =>
      /\ req[r].endpoint = "generate" => sent[r][1].model = "GENERATE_MODEL"
      /\ req[r].endpoint = "chat" => sent[r][1].model = "CHAT_MODEL"
      /\ sent[r][1].stream = req[r].stream
      /\ sent[r][1].options = (IF req[r].options = <<>> THEN {} ELSE req[r].options[1])

\* a generate request that named another model and sent options has been
\* posted, and a chat request that sent no options
C38_Witness ==
  \E r, o \in Requests :
    /\ req[r].endpoint = "generate" /\ req[r].model = "llama3" /\ sent[r] # None
    /\ req[r].options = <<{"temperature"}>> /\ sent[r][1].options = {"temperature"}
    /\ req[o].endpoint = "chat" /\ req[o].options = <<>> /\ sent[o] # None
    /\ sent[o][1].options = {} /\ req[o].stream

(* ---------------- the older variant: GET /api/generate ---------------- *)
\* values of the query parameters k_rag (1..10) and k_web (0..5)
KRags == {1, 4}
KWebs == {0, 2}

\* what the backend does with the post of line 280: an answer with a
\* response text, an answer without one, an error status or no answer (both
\* raise a RequestException)
OldAnswers ==
  { [kind |-> "ok", response |-> <<"a">>], [kind |-> "ok", response |-> <<>>],
    [kind |-> "failed", response |-> <<>>] }

\* how a build pass of the older variant ends (lines 93-132)
OldBuilds == {"ok", "raised"}

OldResponse(status, kind, body) == [status |-> status, kind |-> kind, body |-> body]

\* build_vectorstore of app_old.py (lines 82-133) on the state o of the
\* process and the tree: the state it leaves and whether it raised.  The
\* index is named by the tree it was built from.
old_build_vectorstore(o, tree, outcome) ==
  LET new_hash == hash_code_dir(tree)
  IN  IF o.vectorstore # <<>> /\ new_hash = o.code_hash
      THEN [state |-> o, raised |-> FALSE]
      ELSE IF outcome = "raised"
      THEN [state |-> [o EXCEPT !.code_hash = new_hash], raised |-> TRUE]
      ELSE [state |-> [o EXCEPT !.code_hash = new_hash, !.vectorstore = <<tree>>],
            raised |-> FALSE]

CacheHit_never(use_cache, entry) == FALSE

\* line 273: `use_cache and os.path.exists(cache_path)`
CacheHit(use_cache, entry) == use_cache /\ entry # <<>>

\* ask_question (lines 263-310).  The handler awaits nothing (requests.post
\* is a blocking call), so it runs from its first line to its last with no
\* other request in between.  A cached answer is returned at once (272-275).
\* Otherwise build_prompt runs the freshness check, the retrieval and, for
\* k_web > 0, the web search (lines 174-189); the prompt is posted; the answer
\* is written to the cache (290-291); then the dict of lines 293-299 is built,
\* where the name `false` is not defined: NameError, which the except clause
\* of line 306 does not catch.
ask_question(question, k_rag, k_web, use_cache, build, a) ==
  /\ old.asked < MaxAsks
  /\ LET key == get_cache_key(question)
         request == [question |-> question, k_rag |-> k_rag, k_web |-> k_web,
                     use_cache |-> use_cache]
         handled(o, calls, response) ==
           [o EXCEPT !.asked = @ + 1,
                     !.last = <<[request |-> request, calls |-> calls, resp |-> response]>>]
         b == old_build_vectorstore(old, files, build)
         calls == <<"build_vectorstore", "similarity_search">>
                    \o (IF k_web > 0 THEN <<"DDGS.text">> ELSE <<>>) \o <<"requests.post">>
         answer == IF a.response # <<>> THEN a.response ELSE <<"Pas de réponse générée.">>
     IN  old' =
           IF CacheHit(use_cache, old.cache[key])
           THEN handled(old, <<>>, OldResponse(200, "cached", old.cache[key][1]))
           ELSE IF b.raised
           THEN handled(b.state, <<"build_vectorstore">>,
                        OldResponse(500, "error", <<"Internal Server Error">>))
           ELSE IF a.kind # "ok"
           THEN handled(b.state, calls, OldResponse(500, "error", <<"Erreur API Ollama: ">>))
           ELSE handled([b.state EXCEPT !.cache[key] = <<answer>>,
                                        !.wrote[key] = <<[request |-> request, tree |-> files]>>],
                        calls, OldResponse(500, "error", <<"Internal Server Error">>))
  /\ UNCHANGED <<files, store, vectorstore, code_hash, DDGS_SEARCH_ENABLED, phase, loop,
                 pc, req, local, sent, backend, resp, nbuild, nedit, nrestart, hist,
                 wire, out, arg, ret>>

\* the older variant and its source tree
NextOld ==
  \/ \E f \in FileSet, c \in Contents : ModifyFile(f, c)
  \/ \E q \in Questions, k_rag \in KRags, k_web \in KWebs, use_cache \in BOOLEAN,
        build \in OldBuilds, a \in OldAnswers :
       ask_question(q, k_rag, k_web, use_cache, build, a)

SpecOld == Init /\ [][NextOld]_vars

\* C39 (response cache of the older variant): a request with use_cache for a
\* question that has a cache entry is answered with the stored answer, marked
\* cached, having made no freshness check, no retrieval, no web search and no
\* backend call, and leaving the cache and the index as they were, whatever
\* its k_rag and k_web and whatever the tree is now.
C39_CachedAnswer ==
  [][ old'.asked # old.asked =>
        LET l == old'.last[1]
            key == get_cache_key(l.request.question)
        IN  (l.request.use_cache /\ old.cache[key] # <<>>) =>
              /\ l.resp = [status |-> 200, kind |-> "cached", body |-> old.cache[key][1]]
              /\ l.calls = <<>>
              /\ old'.cache = old.cache
              /\ old'.vectorstore = old.vectorstore
              /\ old'.code_hash = old.code_hash ]_vars

\* a cached answer has been served to a request whose k_rag and k_web differ
\* from those of the request it was written for, after the tree has changed
C39_Witness ==
  /\ old.last # <<>> /\ old.last[1].resp.kind = "cached"
  /\ LET l == old.last[1]
         w == old.wrote[get_cache_key(l.request.question)][1]
     IN  /\ w.request.k_rag # l.request.k_rag
         /\ w.request.k_web # l.request.k_web
         /\ w.tree # files
         /\ l.resp.body = <<"a">>

====
